---- MODULE Spec2Model ----
(* Verification model of procore-dashboard.py: the normalization and        *)
(* classification pipeline of the Submittal & RFI dashboard.                *)
(*                                                                          *)
(* Text is modelled as a sequence of one-character strings, so that         *)
(* str.strip, str.lower, substring tests, splitting and the regular         *)
(* expressions of the source are computed character by character.           *)
EXTENDS Integers, Sequences, FiniteSets, TLC

VARIABLES
    mc_src,          \* map_columns: df.columns of the table first passed in
    mc_item_type,    \* map_columns: which column map is used
    mc_columns,      \* map_columns: df.columns of the latest returned table
    mc_prev,         \* map_columns: df.columns passed to the latest call
    mc_rename_dict,  \* map_columns: rename_dict returned by the latest call
    mc_passes,       \* map_columns: number of calls made so far
    nr_cell,         \* extract_companies_from_names: the argument cell_value
    nr_result,       \* extract_companies_from_names: the returned string
    nr_done,         \* extract_companies_from_names: the call has returned
    pl_src_df,          \* pipeline: the table as loaded, before normalize_columns
    pl_df,              \* pipeline: the working table
    pl_item_type,       \* pipeline: "submittal" or "rfi"
    pl_threshold_days,  \* pipeline: the overdue threshold of this record kind
    pl_now,             \* pipeline: pd.Timestamp.now(), in hours
    pl_open_statuses,   \* pipeline: open list returned by classify_statuses
    pl_closed_statuses, \* pipeline: closed list returned by classify_statuses
    pl_pc,              \* pipeline: the last stage that has run
    data_source,          \* session: "sample" or "upload" (the radio button)
    sub_file,             \* session: file in the Submittals uploader, or NoFile
    rfi_file,             \* session: file in the RFIs uploader, or NoFile
    submittal_threshold,  \* session: the submittal threshold slider
    rfi_threshold,        \* session: the RFI threshold slider
    pdfplumber_installed, \* session: whether import pdfplumber succeeded
    script_now,           \* session: the time of the latest run, in hours
    results,              \* session: df_sub, df_rfi and the status lists of the latest run
    sel_contractors,      \* session: values selected in the Contractor filter
    sel_disciplines,      \* session: values selected in the RFI Discipline filter
    filtered              \* session: df_sub_f and df_rfi_f of the latest run

mapVars == <<mc_src, mc_item_type, mc_columns, mc_prev, mc_rename_dict, mc_passes>>
nameVars == <<nr_cell, nr_result, nr_done>>

pipeVars == <<pl_src_df, pl_df, pl_item_type, pl_threshold_days, pl_now, pl_open_statuses, pl_closed_statuses, pl_pc>>

sessionVars == <<data_source, sub_file, rfi_file, submittal_threshold, rfi_threshold,
                 pdfplumber_installed, script_now, results,
                 sel_contractors, sel_disciplines, filtered>>

vars == <<mapVars, nameVars, pipeVars, sessionVars>>

\* ------------------------------------------------------------------
\* Bounds
\* ------------------------------------------------------------------
MaxCols == 3        \* columns of a table given to map_columns
MaxPasses == 2      \* successive applications of map_columns
MaxCellLen == 4     \* length of the exhaustively enumerated name cells
MaxStatusRows == 3  \* rows of a table given to classify_statuses
MaxOverdueRows == 1 \* rows of a table given to calculate_overdue
MaxRows == 2        \* rows of a source table given to the whole pipeline
SampleRows == 3     \* rows kept of each built-in sample dataset
MaxShareRows == 10  \* rows carrying one status in the tables of the 70% rule
MaxBicNames == 11   \* leading person names in the long Ball in Court tables

HoursPerDay == 24   \* Timedelta.days counts whole days of 24 hours

\* ------------------------------------------------------------------
\* Python str primitives
\* ------------------------------------------------------------------
UpperChars == <<"A","B","C","D","E","F","G","H","I","J","K","L","M",
                "N","O","P","Q","R","S","T","U","V","W","X","Y","Z">>
LowerChars == <<"a","b","c","d","e","f","g","h","i","j","k","l","m",
                "n","o","p","q","r","s","t","u","v","w","x","y","z">>

SetMin(S) == CHOOSE x \in S : \A y \in S : x <= y
SetMax(S) == CHOOSE x \in S : \A y \in S : x >= y

\* the lower-case letter of each upper-case letter
LowerOf ==
    [c \in {UpperChars[i] : i \in 1..Len(UpperChars)} |->
        LowerChars[CHOOSE i \in 1..Len(UpperChars) : UpperChars[i] = c]]

LowerChar(c) == IF c \in DOMAIN LowerOf THEN LowerOf[c] ELSE c

\* str.lower()
StrLower(s) == [i \in 1..Len(s) |-> LowerChar(s[i])]

IsSpace(c) == c \in {" ", "\n", "\t"}

\* str.strip()
StrStrip(s) ==
    LET keep == {i \in 1..Len(s) : ~IsSpace(s[i])}
    IN  IF keep = {} THEN <<>> ELSE SubSeq(s, SetMin(keep), SetMax(keep))

\* Python "a in b" on strings
StrContains(b, a) ==
    \E i \in 0..(Len(b) - Len(a)) : SubSeq(b, i + 1, i + Len(a)) = a

\* a local variable: v is computed once and F is applied to its value
Bind(v, F(_)) == CHOOSE y \in {F(x) : x \in {v}} : TRUE

\* ------------------------------------------------------------------
\* Python dict literals: a sequence of <<key, value>> pairs in source
\* order; a key written twice keeps its last value.
\* ------------------------------------------------------------------
DictHas(d, key) == \E i \in 1..Len(d) : d[i][1] = key
DictGet(d, key) == d[SetMax({i \in 1..Len(d) : d[i][1] = key})][2]
DictValues(d) == {d[i][2] : i \in 1..Len(d)}

\* src lines 121-137
EMPLOYEE_COMPANY_MAP ==
    << << <<"d","a","n"," ","r","i","s","k","e">>, <<"C","I","M","A","+">> >>,
       << <<"j","o","n","a","t","h","a","n"," ","g","a","r","v","e","y","-","w","o","n","g">>, <<"C","I","M","A","+">> >>,
       << <<"t","r","e","n","t"," ","e","k","l","u","n","d">>, <<"S","M","P">> >>,
       << <<"w","a","r","r","e","n"," ","l","e","s","e","n","k","o">>, <<"S","M","P">> >>,
       << <<"r","o","b","b","i","e"," ","g","r","a","y">>, <<"C","R","B">> >>,
       << <<"s","a","u","r","a","v"," ","k","h","a","n","n","a">>, <<"C","R","B">> >>,
       << <<"s","t","e","p","h","a","n","i","e"," ","f","u","r","u","k","a","w","a">>, <<"C","R","B">> >>,
       << <<"a","n","d","r","e","-","p","i","e","r","r","e"," ","g","h","y","s">>, <<"C","R","B">> >>,
       << <<"t","i","f","f","a","n","y"," ","t","j","o","n","g">>, <<"C","R","B">> >>,
       << <<"g","e","r","r","y"," ","d","r","o","u","i","l","l","a","r","d">>, <<"C","R","B">> >>,
       << <<"v","a","s","y","l"," ","z","a","i","e","t","s">>, <<"A","P","I">> >>,
       << <<"b","e","r","n","a","r","d"," ","g","a","g","n","o","n">>, <<"A","P","I">> >>,
       << <<"l","e","s","l","e","y"," ","w","o","o","d","s">>, <<"B","i","r","d">> >>,
       << <<"y","v","o","n","n","e"," ","d","e"," ","l","a"," ","f","u","e","n","t","e">>, <<"P","l","a","n","w","o","r","k","s">> >>,
       << <<"a","n","d","r","e","a","s"," ","l","o","u","t","a","s">>, <<"U","n","k","n","o","w","n">> >> >>

\* SUBMITTAL_COL_MAP
SUBMITTAL_COL_MAP ==
    << << <<"n","u","m","b","e","r">>, <<"S","u","b","m","i","t","t","a","l"," ","#">> >>,
       << <<"#">>, <<"S","u","b","m","i","t","t","a","l"," ","#">> >>,
       << <<"s","u","b","m","i","t","t","a","l"," ","#">>, <<"S","u","b","m","i","t","t","a","l"," ","#">> >>,
       << <<"s","u","b","m","i","t","t","a","l"," ","n","u","m","b","e","r">>, <<"S","u","b","m","i","t","t","a","l"," ","#">> >>,
       << <<"n","o",".">>, <<"S","u","b","m","i","t","t","a","l"," ","#">> >>,
       << <<"n","o">>, <<"S","u","b","m","i","t","t","a","l"," ","#">> >>,
       << <<"t","i","t","l","e">>, <<"T","i","t","l","e">> >>,
       << <<"d","e","s","c","r","i","p","t","i","o","n">>, <<"T","i","t","l","e">> >>,
       << <<"s","u","b","m","i","t","t","a","l"," ","t","i","t","l","e">>, <<"T","i","t","l","e">> >>,
       << <<"s","p","e","c","i","f","i","c","a","t","i","o","n"," ","s","e","c","t","i","o","n">>, <<"S","p","e","c"," ","S","e","c","t","i","o","n">> >>,
       << <<"s","p","e","c"," ","s","e","c","t","i","o","n">>, <<"S","p","e","c"," ","S","e","c","t","i","o","n">> >>,
       << <<"s","p","e","c"," ","#">>, <<"S","p","e","c"," ","S","e","c","t","i","o","n">> >>,
       << <<"s","p","e","c">>, <<"S","p","e","c"," ","S","e","c","t","i","o","n">> >>,
       << <<"s","t","a","t","u","s">>, <<"S","t","a","t","u","s">> >>,
       << <<"c","u","r","r","e","n","t"," ","s","t","a","t","u","s">>, <<"S","t","a","t","u","s">> >>,
       << <<"w","o","r","k","f","l","o","w"," ","s","t","a","t","u","s">>, <<"S","t","a","t","u","s">> >>,
       << <<"b","a","l","l"," ","i","n"," ","c","o","u","r","t">>, <<"B","a","l","l"," ","i","n"," ","C","o","u","r","t">> >>,
       << <<"b","a","l","l","-","i","n","-","c","o","u","r","t">>, <<"B","a","l","l"," ","i","n"," ","C","o","u","r","t">> >>,
       << <<"r","e","s","p","o","n","s","i","b","l","e"," ","p","a","r","t","y">>, <<"B","a","l","l"," ","i","n"," ","C","o","u","r","t">> >>,
       << <<"c","u","r","r","e","n","t"," ","b","a","l","l"," ","i","n"," ","c","o","u","r","t">>, <<"B","a","l","l"," ","i","n"," ","C","o","u","r","t">> >>,
       << <<"r","e","c","e","i","v","e","d"," ","f","r","o","m">>, <<"R","e","c","e","i","v","e","d"," ","F","r","o","m">> >>,
       << <<"s","u","b","m","i","t","t","e","d"," ","b","y">>, <<"R","e","c","e","i","v","e","d"," ","F","r","o","m">> >>,
       << <<"c","r","e","a","t","e","d"," ","b","y">>, <<"R","e","c","e","i","v","e","d"," ","F","r","o","m">> >>,
       << <<"o","r","i","g","i","n","a","t","o","r">>, <<"R","e","c","e","i","v","e","d"," ","F","r","o","m">> >>,
       << <<"d","i","s","t","r","i","b","u","t","e","d"," ","t","o">>, <<"R","e","v","i","e","w","e","r">> >>,
       << <<"r","e","v","i","e","w","e","r">>, <<"R","e","v","i","e","w","e","r">> >>,
       << <<"a","p","p","r","o","v","e","r">>, <<"R","e","v","i","e","w","e","r">> >>,
       << <<"a","s","s","i","g","n","e","d"," ","t","o">>, <<"R","e","v","i","e","w","e","r">> >>,
       << <<"d","u","e"," ","d","a","t","e">>, <<"D","u","e"," ","D","a","t","e">> >>,
       << <<"r","e","q","u","i","r","e","d"," ","o","n"," ","s","i","t","e">>, <<"D","u","e"," ","D","a","t","e">> >>,
       << <<"r","e","q","u","i","r","e","d"," ","o","n","-","s","i","t","e"," ","d","a","t","e">>, <<"D","u","e"," ","D","a","t","e">> >>,
       << <<"d","a","t","e"," ","r","e","q","u","i","r","e","d">>, <<"D","u","e"," ","D","a","t","e">> >>,
       << <<"i","s","s","u","e"," ","d","a","t","e">>, <<"D","u","e"," ","D","a","t","e">> >>,
       << <<"n","e","e","d","e","d"," ","b","y">>, <<"D","u","e"," ","D","a","t","e">> >>,
       << <<"d","a","t","e"," ","c","r","e","a","t","e","d">>, <<"D","a","t","e"," ","C","r","e","a","t","e","d">> >>,
       << <<"c","r","e","a","t","e","d"," ","a","t">>, <<"D","a","t","e"," ","C","r","e","a","t","e","d">> >>,
       << <<"c","r","e","a","t","e","d"," ","d","a","t","e">>, <<"D","a","t","e"," ","C","r","e","a","t","e","d">> >>,
       << <<"c","r","e","a","t","i","o","n"," ","d","a","t","e">>, <<"D","a","t","e"," ","C","r","e","a","t","e","d">> >>,
       << <<"s","u","b","m","i","t"," ","d","a","t","e">>, <<"D","a","t","e"," ","C","r","e","a","t","e","d">> >>,
       << <<"s","u","b","m","i","t","t","e","d"," ","d","a","t","e">>, <<"D","a","t","e"," ","C","r","e","a","t","e","d">> >>,
       << <<"s","u","b","m","i","t","t","e","d"," ","o","n">>, <<"D","a","t","e"," ","C","r","e","a","t","e","d">> >>,
       << <<"d","a","t","e"," ","s","u","b","m","i","t","t","e","d">>, <<"D","a","t","e"," ","C","r","e","a","t","e","d">> >>,
       << <<"d","a","t","e"," ","o","p","e","n","e","d">>, <<"D","a","t","e"," ","C","r","e","a","t","e","d">> >>,
       << <<"o","p","e","n","e","d">>, <<"D","a","t","e"," ","C","r","e","a","t","e","d">> >>,
       << <<"c","l","o","s","e","d"," ","d","a","t","e">>, <<"D","a","t","e"," ","C","l","o","s","e","d">> >>,
       << <<"d","a","t","e"," ","c","l","o","s","e","d">>, <<"D","a","t","e"," ","C","l","o","s","e","d">> >>,
       << <<"c","l","o","s","e","d">>, <<"D","a","t","e"," ","C","l","o","s","e","d">> >>,
       << <<"c","l","o","s","e","d"," ","a","t">>, <<"D","a","t","e"," ","C","l","o","s","e","d">> >>,
       << <<"d","a","t","e"," ","r","e","t","u","r","n","e","d">>, <<"D","a","t","e"," ","C","l","o","s","e","d">> >>,
       << <<"r","e","t","u","r","n","e","d"," ","d","a","t","e">>, <<"D","a","t","e"," ","C","l","o","s","e","d">> >>,
       << <<"c","o","n","t","r","a","c","t","o","r">>, <<"C","o","n","t","r","a","c","t","o","r">> >>,
       << <<"c","o","m","p","a","n","y">>, <<"C","o","n","t","r","a","c","t","o","r">> >>,
       << <<"r","e","s","p","o","n","s","i","b","l","e"," ","c","o","n","t","r","a","c","t","o","r">>, <<"C","o","n","t","r","a","c","t","o","r">> >>,
       << <<"s","u","b","c","o","n","t","r","a","c","t","o","r">>, <<"C","o","n","t","r","a","c","t","o","r">> >>,
       << <<"t","r","a","d","e">>, <<"C","o","n","t","r","a","c","t","o","r">> >>,
       << <<"v","e","n","d","o","r">>, <<"C","o","n","t","r","a","c","t","o","r">> >>,
       << <<"o","v","e","r","d","u","e">>, <<"P","r","o","c","o","r","e"," ","O","v","e","r","d","u","e">> >>,
       << <<"d","a","y","s"," ","o","p","e","n">>, <<"D","a","y","s"," ","O","p","e","n">> >>,
       << <<"a","g","e">>, <<"D","a","y","s"," ","O","p","e","n">> >>,
       << <<"d","a","y","s">>, <<"D","a","y","s"," ","O","p","e","n">> >> >>

\* RFI_COL_MAP
RFI_COL_MAP ==
    << << <<"n","u","m","b","e","r">>, <<"R","F","I"," ","#">> >>,
       << <<"#">>, <<"R","F","I"," ","#">> >>,
       << <<"r","f","i"," ","#">>, <<"R","F","I"," ","#">> >>,
       << <<"r","f","i"," ","n","u","m","b","e","r">>, <<"R","F","I"," ","#">> >>,
       << <<"n","o",".">>, <<"R","F","I"," ","#">> >>,
       << <<"n","o">>, <<"R","F","I"," ","#">> >>,
       << <<"s","u","b","j","e","c","t">>, <<"S","u","b","j","e","c","t">> >>,
       << <<"t","i","t","l","e">>, <<"S","u","b","j","e","c","t">> >>,
       << <<"d","e","s","c","r","i","p","t","i","o","n">>, <<"S","u","b","j","e","c","t">> >>,
       << <<"q","u","e","s","t","i","o","n">>, <<"S","u","b","j","e","c","t">> >>,
       << <<"r","f","i"," ","s","u","b","j","e","c","t">>, <<"S","u","b","j","e","c","t">> >>,
       << <<"s","t","a","t","u","s">>, <<"S","t","a","t","u","s">> >>,
       << <<"c","u","r","r","e","n","t"," ","s","t","a","t","u","s">>, <<"S","t","a","t","u","s">> >>,
       << <<"b","a","l","l"," ","i","n"," ","c","o","u","r","t">>, <<"B","a","l","l"," ","i","n"," ","C","o","u","r","t">> >>,
       << <<"b","a","l","l","-","i","n","-","c","o","u","r","t">>, <<"B","a","l","l"," ","i","n"," ","C","o","u","r","t">> >>,
       << <<"r","e","s","p","o","n","s","i","b","l","e"," ","p","a","r","t","y">>, <<"B","a","l","l"," ","i","n"," ","C","o","u","r","t">> >>,
       << <<"c","u","r","r","e","n","t"," ","b","a","l","l"," ","i","n"," ","c","o","u","r","t">>, <<"B","a","l","l"," ","i","n"," ","C","o","u","r","t">> >>,
       << <<"r","e","c","e","i","v","e","d"," ","f","r","o","m">>, <<"R","e","c","e","i","v","e","d"," ","F","r","o","m">> >>,
       << <<"i","n","i","t","i","a","t","e","d"," ","b","y">>, <<"R","e","c","e","i","v","e","d"," ","F","r","o","m">> >>,
       << <<"c","r","e","a","t","e","d"," ","b","y">>, <<"R","e","c","e","i","v","e","d"," ","F","r","o","m">> >>,
       << <<"o","r","i","g","i","n","a","t","o","r">>, <<"R","e","c","e","i","v","e","d"," ","F","r","o","m">> >>,
       << <<"a","s","s","i","g","n","e","d"," ","t","o">>, <<"A","s","s","i","g","n","e","d"," ","T","o">> >>,
       << <<"r","f","i"," ","m","a","n","a","g","e","r">>, <<"A","s","s","i","g","n","e","d"," ","T","o">> >>,
       << <<"r","e","s","p","o","n","s","i","b","l","e">>, <<"A","s","s","i","g","n","e","d"," ","T","o">> >>,
       << <<"d","u","e"," ","d","a","t","e">>, <<"D","u","e"," ","D","a","t","e">> >>,
       << <<"d","a","t","e"," ","d","u","e">>, <<"D","u","e"," ","D","a","t","e">> >>,
       << <<"r","e","s","p","o","n","s","e"," ","d","u","e">>, <<"D","u","e"," ","D","a","t","e">> >>,
       << <<"r","e","s","p","o","n","s","e"," ","d","u","e"," ","d","a","t","e">>, <<"D","u","e"," ","D","a","t","e">> >>,
       << <<"d","a","t","e"," ","c","r","e","a","t","e","d">>, <<"D","a","t","e"," ","C","r","e","a","t","e","d">> >>,
       << <<"c","r","e","a","t","e","d"," ","a","t">>, <<"D","a","t","e"," ","C","r","e","a","t","e","d">> >>,
       << <<"c","r","e","a","t","e","d"," ","d","a","t","e">>, <<"D","a","t","e"," ","C","r","e","a","t","e","d">> >>,
       << <<"c","r","e","a","t","i","o","n"," ","d","a","t","e">>, <<"D","a","t","e"," ","C","r","e","a","t","e","d">> >>,
       << <<"d","a","t","e"," ","i","n","i","t","i","a","t","e","d">>, <<"D","a","t","e"," ","C","r","e","a","t","e","d">> >>,
       << <<"i","n","i","t","i","a","t","e","d"," ","d","a","t","e">>, <<"D","a","t","e"," ","C","r","e","a","t","e","d">> >>,
       << <<"d","a","t","e"," ","o","p","e","n","e","d">>, <<"D","a","t","e"," ","C","r","e","a","t","e","d">> >>,
       << <<"o","p","e","n","e","d">>, <<"D","a","t","e"," ","C","r","e","a","t","e","d">> >>,
       << <<"c","l","o","s","e","d"," ","d","a","t","e">>, <<"D","a","t","e"," ","C","l","o","s","e","d">> >>,
       << <<"d","a","t","e"," ","c","l","o","s","e","d">>, <<"D","a","t","e"," ","C","l","o","s","e","d">> >>,
       << <<"c","l","o","s","e","d">>, <<"D","a","t","e"," ","C","l","o","s","e","d">> >>,
       << <<"c","l","o","s","e","d"," ","a","t">>, <<"D","a","t","e"," ","C","l","o","s","e","d">> >>,
       << <<"d","a","t","e"," ","a","n","s","w","e","r","e","d">>, <<"D","a","t","e"," ","C","l","o","s","e","d">> >>,
       << <<"a","n","s","w","e","r","e","d"," ","d","a","t","e">>, <<"D","a","t","e"," ","C","l","o","s","e","d">> >>,
       << <<"c","o","n","t","r","a","c","t","o","r">>, <<"C","o","n","t","r","a","c","t","o","r">> >>,
       << <<"c","o","m","p","a","n","y">>, <<"C","o","n","t","r","a","c","t","o","r">> >>,
       << <<"r","e","s","p","o","n","s","i","b","l","e"," ","c","o","n","t","r","a","c","t","o","r">>, <<"C","o","n","t","r","a","c","t","o","r">> >>,
       << <<"s","u","b","c","o","n","t","r","a","c","t","o","r">>, <<"C","o","n","t","r","a","c","t","o","r">> >>,
       << <<"t","r","a","d","e">>, <<"C","o","n","t","r","a","c","t","o","r">> >>,
       << <<"v","e","n","d","o","r">>, <<"C","o","n","t","r","a","c","t","o","r">> >>,
       << <<"d","i","s","c","i","p","l","i","n","e">>, <<"D","i","s","c","i","p","l","i","n","e">> >>,
       << <<"c","a","t","e","g","o","r","y">>, <<"D","i","s","c","i","p","l","i","n","e">> >>,
       << <<"t","r","a","d","e">>, <<"D","i","s","c","i","p","l","i","n","e">> >>,
       << <<"p","r","i","o","r","i","t","y">>, <<"P","r","i","o","r","i","t","y">> >>,
       << <<"u","r","g","e","n","c","y">>, <<"P","r","i","o","r","i","t","y">> >>,
       << <<"c","o","s","t"," ","i","m","p","a","c","t">>, <<"C","o","s","t"," ","I","m","p","a","c","t">> >>,
       << <<"c","o","s","t"," ","c","o","d","e">>, <<"C","o","s","t"," ","I","m","p","a","c","t">> >>,
       << <<"s","c","h","e","d","u","l","e"," ","i","m","p","a","c","t">>, <<"S","c","h","e","d","u","l","e"," ","I","m","p","a","c","t">> >>,
       << <<"o","v","e","r","d","u","e">>, <<"P","r","o","c","o","r","e"," ","O","v","e","r","d","u","e">> >>,
       << <<"d","a","y","s"," ","o","p","e","n">>, <<"D","a","y","s"," ","O","p","e","n">> >>,
       << <<"a","g","e">>, <<"D","a","y","s"," ","O","p","e","n">> >>,
       << <<"d","a","y","s">>, <<"D","a","y","s"," ","O","p","e","n">> >> >>

\* mutant: a column map with one more entry whose key is a canonical name
\* of another entry
ColMapOf_KeyIsTarget(item_type) ==
    Append(IF item_type = "submittal" THEN SUBMITTAL_COL_MAP ELSE RFI_COL_MAP,
           << <<"d","a","t","e"," ","c","l","o","s","e","d">>, <<"C","l","o","s","e","d">> >>)

ColMapOf(item_type) == IF item_type = "submittal" THEN SUBMITTAL_COL_MAP ELSE RFI_COL_MAP

\* mutant: a column is renamed even when its target is already taken
RECURSIVE RenameLoop_NoValueCheck(_, _, _, _)
RenameLoop_NoValueCheck(columns, col_map, i, rename_dict) ==
    IF i > Len(columns) THEN rename_dict
    ELSE LET col == columns[i]
             key == StrLower(StrStrip(col))
         IN  IF DictHas(col_map, key)
             THEN RenameLoop_NoValueCheck(columns, col_map, i + 1,
                             IF DictHas(rename_dict, col)
                             THEN [j \in 1..Len(rename_dict) |->
                                     IF rename_dict[j][1] = col
                                     THEN <<col, DictGet(col_map, key)>>
                                     ELSE rename_dict[j]]
                             ELSE Append(rename_dict, <<col, DictGet(col_map, key)>>))
             ELSE RenameLoop_NoValueCheck(columns, col_map, i + 1, rename_dict)

\* ------------------------------------------------------------------
\* map_columns
\* ------------------------------------------------------------------
\* the loop over df.columns: rename_dict after columns i..Len(columns)
RECURSIVE RenameLoop(_, _, _, _)
RenameLoop(columns, col_map, i, rename_dict) ==
    IF i > Len(columns) THEN rename_dict
    ELSE LET col == columns[i]
             key == StrLower(StrStrip(col))
         IN  IF DictHas(col_map, key) /\ DictGet(col_map, key) \notin DictValues(rename_dict)
             THEN RenameLoop(columns, col_map, i + 1,
                             IF DictHas(rename_dict, col)
                             THEN [j \in 1..Len(rename_dict) |->
                                     IF rename_dict[j][1] = col
                                     THEN <<col, DictGet(col_map, key)>>
                                     ELSE rename_dict[j]]
                             ELSE Append(rename_dict, <<col, DictGet(col_map, key)>>))
             ELSE RenameLoop(columns, col_map, i + 1, rename_dict)

\* df.rename(columns=rename_dict): every label that is a key is replaced
DfRename(columns, rename_dict) ==
    [i \in 1..Len(columns) |->
        IF DictHas(rename_dict, columns[i]) THEN DictGet(rename_dict, columns[i])
        ELSE columns[i]]

map_columns(columns, col_map) ==
    LET rename_dict == RenameLoop(columns, col_map, 1, <<>>)
    IN  [columns |-> DfRename(columns, rename_dict), rename_dict |-> rename_dict]

\* ------------------------------------------------------------------
\* Cells of a table: a missing value (NaN/NaT/None), text, or a number
\* ------------------------------------------------------------------
NaN == [k |-> "nan", s |-> <<>>, n |-> 0]
Str(s) == [k |-> "str", s |-> s, n |-> 0]
Num(n) == [k |-> "num", s |-> <<>>, n |-> n]

\* pd.isna / Series.notna on one cell
isna(c) == c.k = "nan"

\* code-point order of the characters that occur in the model, as used by
\* sorted() on strings
Ascii == <<
    "\t","\n"," ","!","#","$","%","&","'","(",")",
    "*","+",",","-",".","/","0","1","2","3","4","5",
    "6","7","8","9",":",";","<","=",">","?","@","A",
    "B","C","D","E","F","G","H","I","J","K","L","M",
    "N","O","P","Q","R","S","T","U","V","W","X","Y",
    "Z","[","]","^","_","a","b","c","d","e",
    "f","g","h","i","j","k","l","m","n","o","p","q",
    "r","s","t","u","v","w","x","y","z","{","|","}",
    "~" >>

Ord(c) == CHOOSE i \in 1..Len(Ascii) : Ascii[i] = c

\* Python a < b on strings
StrLess(a, b) ==
    \/ \E i \in 1..Len(a) :
          /\ i <= Len(b)
          /\ SubSeq(a, 1, i - 1) = SubSeq(b, 1, i - 1)
          /\ Ord(a[i]) < Ord(b[i])
    \/ Len(a) < Len(b) /\ SubSeq(b, 1, Len(a)) = a

\* sorted(S) for a set of strings
RECURSIVE Sorted(_)
Sorted(S) ==
    IF S = {} THEN <<>>
    ELSE LET m == CHOOSE x \in S : \A y \in S \ {x} : StrLess(x, y)
         IN  <<m>> \o Sorted(S \ {m})

\* sep.join(seq)
RECURSIVE StrJoin(_, _)
StrJoin(sep, seq) ==
    IF seq = <<>> THEN <<>>
    ELSE IF Len(seq) = 1 THEN seq[1]
    ELSE seq[1] \o sep \o StrJoin(sep, Tail(seq))

Unknown == <<"U","n","k","n","o","w","n">>

\* ------------------------------------------------------------------
\* extract_companies_from_names
\* ------------------------------------------------------------------
\* re.split(r'[,\n]+', text): the pieces between maximal runs of , and \n
IsSep(c) == c \in {",", "\n"}

RECURSIVE ReSplit(_, _, _)
ReSplit(text, i, cur) ==
    IF i > Len(text) THEN <<cur>>
    ELSE IF IsSep(text[i])
    THEN LET rest == {j \in i..Len(text) : ~IsSep(text[j])}
             nxt == IF rest = {} THEN Len(text) + 1 ELSE SetMin(rest)
         IN  <<cur>> \o ReSplit(text, nxt, <<>>)
    ELSE ReSplit(text, i + 1, Append(cur, text[i]))

\* re.search(r'\(([^)]+)\)', part): start positions at which the pattern
\* matches; the search returns the leftmost
ParenStarts(part) ==
    {i \in 1..Len(part) :
        /\ part[i] = "("
        /\ \E j \in (i + 2)..Len(part) :
              /\ part[j] = ")"
              /\ \A m \in (i + 1)..(j - 1) : part[m] # ")"}

\* match.group(1) of the leftmost match
ParenGroup(part) ==
    LET i == SetMin(ParenStarts(part))
        j == SetMin({m \in (i + 1)..Len(part) : part[m] = ")"})
    IN  SubSeq(part, i + 1, j - 1)

\* re.sub(r'\([^)]*\)', '', part), scanning from position i
RECURSIVE ReSubParens(_, _)
ReSubParens(part, i) ==
    IF i > Len(part) THEN <<>>
    ELSE IF part[i] = "(" /\ \E j \in (i + 1)..Len(part) : part[j] = ")"
    THEN ReSubParens(part, SetMin({j \in (i + 1)..Len(part) : part[j] = ")"}) + 1)
    ELSE <<part[i]>> \o ReSubParens(part, i + 1)

\* mutant: only a key contained in the name counts as a hit
SubstringHits_KeyInName(clean_name) ==
    {i \in 1..Len(EMPLOYEE_COMPANY_MAP) :
        StrContains(clean_name, EMPLOYEE_COMPANY_MAP[i][1])}

\* the for/break loop over EMPLOYEE_COMPANY_MAP.items()
SubstringHits(clean_name) ==
    {i \in 1..Len(EMPLOYEE_COMPANY_MAP) :
        \/ StrContains(clean_name, EMPLOYEE_COMPANY_MAP[i][1])
        \/ StrContains(EMPLOYEE_COMPANY_MAP[i][1], clean_name)}

\* mutant: the name table is consulted before the parenthetical
PartCompanies_LookupFirst(raw_part) ==
    LET part == StrStrip(raw_part)
        clean_name == StrLower(StrStrip(ReSubParens(part, 1)))
    IN  IF part = <<>> THEN {}
        ELSE IF DictHas(EMPLOYEE_COMPANY_MAP, clean_name)
        THEN {DictGet(EMPLOYEE_COMPANY_MAP, clean_name)}
        ELSE IF ParenStarts(part) # {} THEN {StrStrip(ParenGroup(part))}
        ELSE IF SubstringHits(clean_name) # {}
        THEN {EMPLOYEE_COMPANY_MAP[SetMin(SubstringHits(clean_name))][2]}
        ELSE IF clean_name # <<>> THEN {Unknown}
        ELSE {}

\* what one element of parts adds to the set companies
PartCompanies(raw_part) ==
    LET part == StrStrip(raw_part)
        clean_name == StrLower(StrStrip(ReSubParens(part, 1)))
    IN  IF part = <<>> THEN {}
        ELSE IF ParenStarts(part) # {} THEN {StrStrip(ParenGroup(part))}
        ELSE IF DictHas(EMPLOYEE_COMPANY_MAP, clean_name)
        THEN {DictGet(EMPLOYEE_COMPANY_MAP, clean_name)}
        ELSE IF SubstringHits(clean_name) # {}
        THEN {EMPLOYEE_COMPANY_MAP[SetMin(SubstringHits(clean_name))][2]}
        ELSE IF clean_name # <<>> THEN {Unknown}
        ELSE {}

\* mutant: "Unknown" is kept next to the organizations that were found
extract_companies_from_names_KeepUnknown(cell_value) ==
    IF isna(cell_value) \/ StrStrip(cell_value.s) = <<>> THEN Unknown
    ELSE LET parts == ReSplit(cell_value.s, 1, <<>>)
             companies == UNION {PartCompanies(parts[i]) : i \in 1..Len(parts)}
         IN  IF companies = {} THEN Unknown
             ELSE StrJoin(<<",", " ">>, Sorted(companies))

extract_companies_from_names(cell_value) ==
    IF isna(cell_value) \/ StrStrip(cell_value.s) = <<>> THEN Unknown
    ELSE LET parts == ReSplit(cell_value.s, 1, <<>>)
             companies == UNION {PartCompanies(parts[i]) : i \in 1..Len(parts)}
         IN  IF companies = {} THEN Unknown
             ELSE IF Cardinality(companies) > 1
             THEN StrJoin(<<",", " ">>, Sorted(companies \ {Unknown}))
             ELSE StrJoin(<<",", " ">>, Sorted(companies))

\* ------------------------------------------------------------------
\* DataFrame: column labels in order, and rows of cells aligned with them
\* ------------------------------------------------------------------
Ts(t) == [k |-> "ts", s |-> <<>>, n |-> t]       \* a Timestamp, in hours
Bool(b) == [k |-> "bool", s |-> <<>>, n |-> IF b THEN 1 ELSE 0]

ColStatus == <<"S","t","a","t","u","s">>
ColDateClosed == <<"D","a","t","e"," ","C","l","o","s","e","d">>

NRows(df) == Len(df.rows)

\* "name" in df.columns
HasCol(df, name) == \E i \in 1..Len(df.columns) : df.columns[i] = name

ColIdx(df, name) == SetMin({i \in 1..Len(df.columns) : df.columns[i] = name})

\* df[name] as a sequence of cells, one per row
Series(df, name) == [r \in 1..NRows(df) |-> df.rows[r][ColIdx(df, name)]]

\* df[name] = series: replaces the column, or appends it as the last one
SetCol(df, name, series) ==
    IF HasCol(df, name)
    THEN [df EXCEPT !.rows = [r \in 1..NRows(df) |->
                                [df.rows[r] EXCEPT ![ColIdx(df, name)] = series[r]]]]
    ELSE [columns |-> Append(df.columns, name),
          rows |-> [r \in 1..NRows(df) |-> Append(df.rows[r], series[r])]]

\* Series.dropna()
RECURSIVE DropNa(_)
DropNa(series) ==
    IF series = <<>> THEN <<>>
    ELSE IF isna(Head(series)) THEN DropNa(Tail(series))
    ELSE <<Head(series)>> \o DropNa(Tail(series))

\* Series.unique(): distinct values in order of first appearance
RECURSIVE Unique(_, _)
Unique(series, seen) ==
    IF series = <<>> THEN seen
    ELSE IF \E i \in 1..Len(seen) : seen[i] = Head(series)
    THEN Unique(Tail(series), seen)
    ELSE Unique(Tail(series), Append(seen, Head(series)))

\* Series.head(n)
SeriesHead(series, n) == SubSeq(series, 1, IF Len(series) < n THEN Len(series) ELSE n)

Range(seq) == {seq[i] : i \in 1..Len(seq)}

\* KNOWN_CLOSED_STATUSES / KNOWN_OPEN_STATUSES
KNOWN_CLOSED_STATUSES ==
    { <<"c","l","o","s","e","d">>,
      <<"a","p","p","r","o","v","e","d">>,
      <<"a","p","p","r","o","v","e","d"," ","a","s"," ","n","o","t","e","d">>,
      <<"r","e","j","e","c","t","e","d">>,
      <<"v","o","i","d">>,
      <<"v","o","i","d","e","d">>,
      <<"c","a","n","c","e","l","l","e","d">>,
      <<"c","a","n","c","e","l","e","d">>,
      <<"c","o","m","p","l","e","t","e","d">>,
      <<"r","e","s","o","l","v","e","d">>,
      <<"w","i","t","h","d","r","a","w","n">> }

KNOWN_OPEN_STATUSES ==
    { <<"o","p","e","n">>,
      <<"p","e","n","d","i","n","g">>,
      <<"p","e","n","d","i","n","g"," ","r","e","v","i","e","w">>,
      <<"p","e","n","d","i","n","g"," ","r","e","s","p","o","n","s","e">>,
      <<"s","u","b","m","i","t","t","e","d">>,
      <<"i","n"," ","r","e","v","i","e","w">>,
      <<"d","r","a","f","t">>,
      <<"r","e","v","i","s","e"," ","&"," ","r","e","s","u","b","m","i","t">>,
      <<"r","e","v","i","s","e"," ","a","n","d"," ","r","e","s","u","b","m","i","t">>,
      <<"r","e","s","u","b","m","i","t">>,
      <<"o","v","e","r","d","u","e">>,
      <<"u","n","d","e","r"," ","r","e","v","i","e","w">>,
      <<"a","w","a","i","t","i","n","g"," ","r","e","s","p","o","n","s","e">> }

\* mutant: a share of exactly 70% counts as closed
MostlyClosed_AtLeast(df, s) ==
    LET mask == {r \in 1..NRows(df) : Series(df, ColStatus)[r] = s}
        has_closed == {r \in mask : ~isna(Series(df, ColDateClosed)[r])}
    IN  10 * Cardinality(has_closed) >= 7 * Cardinality(mask)

\* ------------------------------------------------------------------
\* classify_statuses
\* ------------------------------------------------------------------
\* df.loc[mask, "Date Closed"].notna().mean() > 0.7 with mask = (Status == s),
\* as the comparison of whole numbers 10 * closed > 7 * rows
MostlyClosed(df, s) ==
    LET mask == {r \in 1..NRows(df) : Series(df, ColStatus)[r] = s}
        has_closed == {r \in mask : ~isna(Series(df, ColDateClosed)[r])}
    IN  10 * Cardinality(has_closed) > 7 * Cardinality(mask)

\* mutant: the Date Closed heuristic is consulted before the keyword sets
StatusIsClosed_DateFirst(df, s) ==
    LET s_lower == StrLower(StrStrip(s.s))
    IN  IF HasCol(df, ColDateClosed) THEN MostlyClosed(df, s)
        ELSE s_lower \in KNOWN_CLOSED_STATUSES

\* the if/elif/else of the loop body: TRUE when s goes to closed_list
StatusIsClosed(df, s) ==
    LET s_lower == StrLower(StrStrip(s.s))
    IN  IF s_lower \in KNOWN_CLOSED_STATUSES THEN TRUE
        ELSE IF s_lower \in KNOWN_OPEN_STATUSES THEN FALSE
        ELSE IF HasCol(df, ColDateClosed) THEN MostlyClosed(df, s)
        ELSE FALSE

\* mutant: the loop runs over every non-null row value, without unique()
AllStatuses_NoUnique(df) == DropNa(Series(df, ColStatus))

\* df["Status"].dropna().unique()
AllStatuses(df) == Unique(DropNa(Series(df, ColStatus)), <<>>)

RECURSIVE ClassifyLoop(_, _, _, _, _)
ClassifyLoop(df, all_statuses, i, open_list, closed_list) ==
    IF i > Len(all_statuses)
    THEN [open_list |-> open_list, closed_list |-> closed_list]
    ELSE IF StatusIsClosed(df, all_statuses[i])
    THEN ClassifyLoop(df, all_statuses, i + 1, open_list, Append(closed_list, all_statuses[i]))
    ELSE ClassifyLoop(df, all_statuses, i + 1, Append(open_list, all_statuses[i]), closed_list)

classify_statuses(df) ==
    IF ~HasCol(df, ColStatus) THEN [open_list |-> <<>>, closed_list |-> <<>>]
    ELSE ClassifyLoop(df, AllStatuses(df), 1, <<>>, <<>>)

\* ------------------------------------------------------------------
\* calculate_overdue
\* ------------------------------------------------------------------
ColDaysOpen == <<"D","a","y","s"," ","O","p","e","n">>
ColDueDate == <<"D","u","e"," ","D","a","t","e">>
ColProcoreOverdue == <<"P","r","o","c","o","r","e"," ","O","v","e","r","d","u","e">>
ColIsOverdue == <<"I","s"," ","O","v","e","r","d","u","e">>

Digits == <<"0","1","2","3","4","5","6","7","8","9">>

\* str(n) for an integer
RECURSIVE NatStr(_)
NatStr(n) == IF n < 10 THEN <<Digits[n + 1]>> ELSE NatStr(n \div 10) \o <<Digits[(n % 10) + 1]>>
IntStr(n) == IF n < 0 THEN <<"-">> \o NatStr(0 - n) ELSE NatStr(n)

\* Series.astype(str) on one cell
AsTypeStr(c) ==
    CASE c.k = "str" -> c.s
      [] c.k = "nan" -> <<"n","a","n">>
      [] c.k = "num" -> IntStr(c.n)
      [] c.k = "bool" -> IF c.n = 1 THEN <<"T","r","u","e">> ELSE <<"F","a","l","s","e">>
      [] OTHER -> <<"t","s">> \o IntStr(c.n)

OverdueWords ==
    { <<"y","e","s">>, <<"t","r","u","e">>, <<"1">>,
      <<"o","v","e","r","d","u","e">>, <<"y">> }

\* Signal 1: the Procore overdue flag of row r
procore_flag(df, r) ==
    IF HasCol(df, ColProcoreOverdue)
    THEN StrLower(StrStrip(AsTypeStr(Series(df, ColProcoreOverdue)[r]))) \in OverdueWords
    ELSE FALSE

\* mutant: the comparison with the threshold is reversed
days_exceed_Reversed(df, r, threshold_days) ==
    LET d == Series(df, ColDaysOpen)[r]
    IN  d.k = "num" /\ d.n <= threshold_days

\* mutant: Days Open equal to the threshold counts as exceeding it
days_exceed_AtLeast(df, r, threshold_days) ==
    LET d == Series(df, ColDaysOpen)[r]
    IN  d.k = "num" /\ d.n >= threshold_days

\* Signal 2: df["Days Open"] > threshold_days (False for NaN)
days_exceed(df, r, threshold_days) ==
    LET d == Series(df, ColDaysOpen)[r]
    IN  d.k = "num" /\ d.n > threshold_days

\* Signal 3: the due date has passed
past_due(df, r, t_now) ==
    IF HasCol(df, ColDueDate)
    THEN LET d == Series(df, ColDueDate)[r]
         IN  ~isna(d) /\ d.n < t_now
    ELSE FALSE

\* df["Status"].isin(open_statuses) for row r
is_open(df, r, open_list) == Series(df, ColStatus)[r] \in Range(open_list)

\* mutant: the signals are not gated by is_open
calculate_overdue_NoOpenGate(df, threshold_days, open_list, t_now) ==
    SetCol(df, ColIsOverdue,
           [r \in 1..NRows(df) |->
               Bool(procore_flag(df, r) \/ days_exceed(df, r, threshold_days)
                       \/ past_due(df, r, t_now))])

calculate_overdue(df, threshold_days, open_list, t_now) ==
    SetCol(df, ColIsOverdue,
           [r \in 1..NRows(df) |->
               Bool(is_open(df, r, open_list)
                    /\ (procore_flag(df, r) \/ days_exceed(df, r, threshold_days)
                          \/ past_due(df, r, t_now)))])

\* ------------------------------------------------------------------
\* pandas conversions used by normalize_columns
\* ------------------------------------------------------------------
IsDigit(c) == \E i \in 1..Len(Digits) : Digits[i] = c
DigitVal(c) == (CHOOSE i \in 1..Len(Digits) : Digits[i] = c) - 1

RECURSIVE DigitsVal(_)
DigitsVal(s) == IF s = <<>> THEN 0 ELSE 10 * DigitsVal(SubSeq(s, 1, Len(s) - 1)) + DigitVal(s[Len(s)])

AllDigits(s) == s # <<>> /\ \A i \in 1..Len(s) : IsDigit(s[i])

\* pd.to_numeric(errors="coerce") on one cell, for whole numbers: text that
\* is not a number becomes NaN
ToNumeric(c) ==
    LET txt == StrStrip(c.s)
    IN  CASE c.k = "num" -> c
          [] c.k = "str" /\ AllDigits(txt) -> Num(DigitsVal(txt))
          [] c.k = "str" /\ Len(txt) > 1 /\ txt[1] = "-" /\ AllDigits(Tail(txt))
                -> Num(0 - DigitsVal(Tail(txt)))
          [] OTHER -> NaN

IsLeap(y) == y % 4 = 0 /\ (y % 100 # 0 \/ y % 400 = 0)
DaysInMonth(y, m) ==
    IF m = 2 THEN (IF IsLeap(y) THEN 29 ELSE 28)
    ELSE IF m \in {4, 6, 9, 11} THEN 30 ELSE 31

EpochYear == 2025

\* days from 1 January of EpochYear to the given date
DaysSinceEpoch(y, m, d) ==
    LET years == IF y >= EpochYear
                 THEN 365 * (y - EpochYear) + Cardinality({yy \in EpochYear..(y - 1) : IsLeap(yy)})
                 ELSE 0 - (365 * (EpochYear - y) + Cardinality({yy \in y..(EpochYear - 1) : IsLeap(yy)}))
        RECURSIVE Before(_)
        Before(mm) == IF mm = 1 THEN 0 ELSE Before(mm - 1) + DaysInMonth(y, mm - 1)
    IN  years + Before(m) + (d - 1)

\* pd.to_datetime(errors="coerce") on one cell, for text of the form
\* YYYY-MM-DD (midnight of that day); anything else becomes NaT
ToDatetime(c) ==
    LET txt == StrStrip(c.s)
        y == DigitsVal(SubSeq(txt, 1, 4))
        m == DigitsVal(SubSeq(txt, 6, 7))
        d == DigitsVal(SubSeq(txt, 9, 10))
    IN  IF c.k = "ts" THEN c
        ELSE IF /\ c.k = "str"
                /\ Len(txt) = 10
                /\ txt[5] = "-" /\ txt[8] = "-"
                /\ AllDigits(SubSeq(txt, 1, 4)) /\ AllDigits(SubSeq(txt, 6, 7))
                /\ AllDigits(SubSeq(txt, 9, 10))
                /\ m \in 1..12 /\ d >= 1 /\ d <= DaysInMonth(y, m)
        THEN Ts(HoursPerDay * DaysSinceEpoch(y, m, d))
        ELSE NaN

\* df[name] raises: the label occurs twice, so df[name] is a DataFrame
DupCol(df, name) == Cardinality({i \in 1..Len(df.columns) : df.columns[i] = name}) > 1

\* Series.str raises AttributeError: the column holds values but no text
\* (a column read with every cell blank is a float column of NaN)
StrAccessorRaises(series) ==
    series # <<>> /\ \A i \in 1..Len(series) : series[i].k # "str"

\* ------------------------------------------------------------------
\* derive_contractor_column
\* ------------------------------------------------------------------
ColContractor == <<"C","o","n","t","r","a","c","t","o","r">>
ColBallInCourt == <<"B","a","l","l"," ","i","n"," ","C","o","u","r","t">>
ColDateCreated == <<"D","a","t","e"," ","C","r","e","a","t","e","d">>

KnownOrgs ==
    { <<"c","i","m","a","+">>, <<"s","m","p">>, <<"c","r","b">>, <<"a","p","i">>, <<"b","i","r","d">>, <<"p","l","a","n","w","o","r","k","s">>, <<"i","c","o","n"," ","e","l","e","c","t","r","i","c">> }

NameKeywords ==
    { <<"b","a","l","l"," ","i","n"," ","c","o","u","r","t">>, <<"a","s","s","i","g","n","e","d">>, <<"r","e","s","p","o","n","s","i","b","l","e">>, <<"r","e","v","i","e","w","e","r">>,
      <<"r","e","c","e","i","v","e","d"," ","f","r","o","m">>, <<"c","r","e","a","t","e","d"," ","b","y">>, <<"s","u","b","m","i","t","t","e","d"," ","b","y">>, <<"n","a","m","e">>,
      <<"d","i","s","t","r","i","b","u","t","e","d"," ","t","o">>, <<"a","p","p","r","o","v","e","r">>, <<"r","f","i"," ","m","a","n","a","g","e","r">> }

\* the sampled Contractor values contain a known organization token
ContractorRecognized(df) ==
    LET sample == SeriesHead(DropNa(Series(df, ColContractor)), 20)
    IN  \E i \in 1..Len(sample) :
           LET s == StrLower(StrStrip(sample[i].s))
           IN  \E kw \in KnownOrgs : StrContains(s, kw)

\* name_cols: positions of the columns whose label suggests a person
NameCols(df) ==
    {i \in 1..Len(df.columns) :
        LET cl == StrLower(df.columns[i])
        IN  \E kw \in NameKeywords : StrContains(cl, kw)}

\* derive_contractor_column raises instead of returning
DeriveRaises(df) ==
    IF HasCol(df, ColContractor)
       /\ (DupCol(df, ColContractor) \/ StrAccessorRaises(Series(df, ColContractor)))
    THEN TRUE
    ELSE IF HasCol(df, ColContractor) /\ ContractorRecognized(df) THEN FALSE
    ELSE NameCols(df) # {} /\ DupCol(df, df.columns[SetMin(NameCols(df))])

\* Series.apply(extract_companies_from_names)
ApplyExtract(series) ==
    [r \in 1..Len(series) |-> Str(extract_companies_from_names(series[r]))]

derive_contractor_column(df) ==
    IF HasCol(df, ColContractor) /\ ContractorRecognized(df) THEN df
    ELSE IF NameCols(df) # {}
    THEN SetCol(df, ColContractor,
                ApplyExtract(Series(df, df.columns[SetMin(NameCols(df))])))
    ELSE IF ~HasCol(df, ColContractor)
    THEN SetCol(df, ColContractor, [r \in 1..NRows(df) |-> Str(Unknown)])
    ELSE df

\* ------------------------------------------------------------------
\* normalize_columns
\* ------------------------------------------------------------------
DateCols == <<ColDateCreated, ColDueDate, ColDateClosed>>

\* df, mapped = map_columns(df, col_map)
MapDf(df, item_type) ==
    [df EXCEPT !.columns = map_columns(df.columns, ColMapOf(item_type)).columns]

\* Parse date columns
RECURSIVE ParseDates(_, _)
ParseDates(df, i) ==
    IF i > Len(DateCols) THEN df
    ELSE IF HasCol(df, DateCols[i])
    THEN ParseDates(SetCol(df, DateCols[i],
                           [r \in 1..NRows(df) |-> ToDatetime(Series(df, DateCols[i])[r])]),
                    i + 1)
    ELSE ParseDates(df, i + 1)

\* (end - created).dt.days.clip(lower=0) for one row; NaN when created is NaT
ElapsedDays(created, end_ts) ==
    IF isna(created) THEN NaN
    ELSE LET days == (end_ts - created.n) \div HoursPerDay
         IN  Num(IF days < 0 THEN 0 ELSE days)

\* Auto-calculate Days Open
ComputeDaysOpen(df, t_now) ==
    IF ~HasCol(df, ColDaysOpen)
    THEN IF HasCol(df, ColDateCreated)
         THEN SetCol(df, ColDaysOpen,
                 [r \in 1..NRows(df) |->
                     ElapsedDays(Series(df, ColDateCreated)[r],
                                 IF HasCol(df, ColDateClosed)
                                    /\ ~isna(Series(df, ColDateClosed)[r])
                                 THEN Series(df, ColDateClosed)[r].n
                                 ELSE t_now)])
         ELSE SetCol(df, ColDaysOpen, [r \in 1..NRows(df) |-> Num(0)])
    ELSE SetCol(df, ColDaysOpen,
                [r \in 1..NRows(df) |->
                    LET v == ToNumeric(Series(df, ColDaysOpen)[r])
                    IN  IF isna(v) THEN Num(0) ELSE v])

\* Defaults for missing columns, in dict order
Defaults(item_type) ==
    << <<ColStatus, <<"O","p","e","n">>>>, <<ColContractor, Unknown>>, <<ColBallInCourt, Unknown>> >>
    \o (IF item_type = "submittal"
        THEN << <<<<"S","u","b","m","i","t","t","a","l"," ","#">>, <<>> >>, <<<<"T","i","t","l","e">>, <<>> >>,
                <<<<"R","e","v","i","e","w","e","r">>, <<>> >>, <<<<"S","p","e","c"," ","S","e","c","t","i","o","n">>, <<>> >> >>
        ELSE << <<<<"R","F","I"," ","#">>, <<>> >>, <<<<"S","u","b","j","e","c","t">>, <<>> >>,
                <<<<"D","i","s","c","i","p","l","i","n","e">>, <<"G","e","n","e","r","a","l">>>>, <<<<"P","r","i","o","r","i","t","y">>, <<"M","e","d","i","u","m">>>>,
                <<<<"C","o","s","t"," ","I","m","p","a","c","t">>, <<"N","o","n","e">>>>, <<<<"S","c","h","e","d","u","l","e"," ","I","m","p","a","c","t">>, <<"N","o">>>> >>)

\* mutant: the default is written whether or not the column is present
RECURSIVE FillDefaults_Overwrite(_, _, _)
FillDefaults_Overwrite(df, defaults, i) ==
    IF i > Len(defaults) THEN df
    ELSE FillDefaults_Overwrite(SetCol(df, defaults[i][1],
                                       [r \in 1..NRows(df) |-> Str(defaults[i][2])]),
                                defaults, i + 1)

RECURSIVE FillDefaults(_, _, _)
FillDefaults(df, defaults, i) ==
    IF i > Len(defaults) THEN df
    ELSE IF HasCol(df, defaults[i][1]) THEN FillDefaults(df, defaults, i + 1)
    ELSE FillDefaults(SetCol(df, defaults[i][1],
                             [r \in 1..NRows(df) |-> Str(defaults[i][2])]),
                      defaults, i + 1)

standard_bic ==
    { <<"c","o","n","s","u","l","t","a","n","t">>, <<"c","o","n","t","r","a","c","t","o","r">>, <<"o","w","n","e","r">>, <<"a","r","c","h","i","t","e","c","t">>, <<"c","l","o","s","e","d">>, <<"u","n","k","n","o","w","n">>, <<>> }

\* mutant: the whole column is sampled, without head(10)
NormalizeBallInCourt_WholeColumn(df) ==
    IF HasCol(df, ColBallInCourt)
    THEN LET sample_bic == DropNa(Series(df, ColBallInCourt))
         IN  IF ~\E i \in 1..Len(sample_bic) :
                    StrLower(StrStrip(sample_bic[i].s)) \in standard_bic
             THEN SetCol(df, ColBallInCourt, ApplyExtract(Series(df, ColBallInCourt)))
             ELSE df
    ELSE df

\* Map Ball in Court to companies if it has employee names
NormalizeBallInCourt(df) ==
    IF HasCol(df, ColBallInCourt)
    THEN LET sample_bic == SeriesHead(DropNa(Series(df, ColBallInCourt)), 10)
         IN  IF ~\E i \in 1..Len(sample_bic) :
                    StrLower(StrStrip(sample_bic[i].s)) \in standard_bic
             THEN SetCol(df, ColBallInCourt, ApplyExtract(Series(df, ColBallInCourt)))
             ELSE df
    ELSE df

\* normalize_columns: the returned table, or raised = TRUE when one of its
\* steps raises instead (df is then the table as passed in)
normalize_columns(df, item_type, t_now) ==
    Bind(MapDf(df, item_type), LAMBDA mapped :
    IF DeriveRaises(mapped) THEN [raised |-> TRUE, df |-> df] ELSE
    Bind(derive_contractor_column(mapped), LAMBDA derived :
    IF \E i \in 1..Len(DateCols) : DupCol(derived, DateCols[i])
    THEN [raised |-> TRUE, df |-> df] ELSE
    Bind(ParseDates(derived, 1), LAMBDA dated :
    IF DupCol(dated, ColDaysOpen) THEN [raised |-> TRUE, df |-> df] ELSE
    Bind(FillDefaults(ComputeDaysOpen(dated, t_now), Defaults(item_type), 1), LAMBDA filled :
    IF DupCol(filled, ColBallInCourt) \/ StrAccessorRaises(Series(filled, ColBallInCourt))
    THEN [raised |-> TRUE, df |-> df]
    ELSE [raised |-> FALSE, df |-> NormalizeBallInCourt(filled)]))))

\* (datetime.now() - created).days for a record created on the given day
SampleAge(t_now, created) == (t_now - ToDatetime(Str(created)).n) \div HoursPerDay

\* the first rows of the table built by generate_sample_submittals; the Days Open of a
\* record that is not closed is (datetime.now() - created).days
generate_sample_submittals(t_now) ==
    [columns |->
        << <<"S","u","b","m","i","t","t","a","l"," ","#">>,
           <<"T","i","t","l","e">>,
           <<"S","p","e","c"," ","S","e","c","t","i","o","n">>,
           <<"C","o","n","t","r","a","c","t","o","r">>,
           <<"S","t","a","t","u","s">>,
           <<"B","a","l","l"," ","i","n"," ","C","o","u","r","t">>,
           <<"R","e","v","i","e","w","e","r">>,
           <<"D","a","t","e"," ","C","r","e","a","t","e","d">>,
           <<"D","u","e"," ","D","a","t","e">>,
           <<"D","a","t","e"," ","C","l","o","s","e","d">>,
           <<"D","a","y","s"," ","O","p","e","n">> >>,
     rows |-> SubSeq(<<
        << Str(<<"S","U","B","-","0","0","0","1">>),
           Str(<<"S","u","b","m","i","t","t","a","l"," ","f","o","r"," ","S","w","i","t","c","h","b","o","a","r","d","s"," ","&"," ","P","a","n","e","l","s">>),
           Str(<<"2","6"," ","0","5"," ","0","0"," ","-"," ","E","l","e","c","t","r","i","c","a","l"," ","G","e","n","e","r","a","l">>),
           Str(<<"C","I","M","A","+">>),
           Str(<<"O","p","e","n">>),
           Str(<<"C","o","n","t","r","a","c","t","o","r">>),
           Str(<<"C","I","M","A","+"," ","R","e","v","i","e","w">>),
           Str(<<"2","0","2","5","-","0","6","-","1","3">>),
           Str(<<"2","0","2","5","-","0","6","-","2","1">>),
           Str(<<>>),
           Num(SampleAge(t_now, <<"2","0","2","5","-","0","6","-","1","3">>)) >>,
        << Str(<<"S","U","B","-","0","0","0","2">>),
           Str(<<"S","u","b","m","i","t","t","a","l"," ","f","o","r"," ","S","w","i","t","c","h","b","o","a","r","d","s"," ","&"," ","P","a","n","e","l","s">>),
           Str(<<"0","8"," ","1","1"," ","0","0"," ","-"," ","S","t","e","e","l"," ","D","o","o","r","s"," ","&"," ","F","r","a","m","e","s">>),
           Str(<<"C","R","B">>),
           Str(<<"R","e","j","e","c","t","e","d">>),
           Str(<<"C","l","o","s","e","d">>),
           Str(<<"O","w","n","e","r"," ","R","e","p">>),
           Str(<<"2","0","2","5","-","0","7","-","0","8">>),
           Str(<<"2","0","2","5","-","0","7","-","1","6">>),
           Str(<<"2","0","2","5","-","0","7","-","1","3">>),
           Num(5) >>,
        << Str(<<"S","U","B","-","0","0","0","3">>),
           Str(<<"S","u","b","m","i","t","t","a","l"," ","f","o","r"," ","S","t","e","e","l"," ","D","o","o","r","s"," ","&"," ","F","r","a","m","e","s">>),
           Str(<<"2","1"," ","1","3"," ","0","0"," ","-"," ","F","i","r","e"," ","S","p","r","i","n","k","l","e","r"," ","S","y","s","t","e","m","s">>),
           Str(<<"C","R","B">>),
           Str(<<"P","e","n","d","i","n","g"," ","R","e","v","i","e","w">>),
           Str(<<"C","o","n","t","r","a","c","t","o","r">>),
           Str(<<"O","w","n","e","r"," ","R","e","p">>),
           Str(<<"2","0","2","5","-","0","1","-","2","4">>),
           Str(<<"2","0","2","5","-","0","2","-","0","3">>),
           Str(<<>>),
           Num(SampleAge(t_now, <<"2","0","2","5","-","0","1","-","2","4">>)) >>,
        << Str(<<"S","U","B","-","0","0","0","4">>),
           Str(<<"S","u","b","m","i","t","t","a","l"," ","f","o","r"," ","E","l","e","c","t","r","i","c","a","l"," ","G","e","n","e","r","a","l">>),
           Str(<<"1","3"," ","3","4"," ","0","0"," ","-"," ","C","l","e","a","n","r","o","o","m"," ","C","o","n","s","t","r","u","c","t","i","o","n">>),
           Str(<<"C","R","B">>),
           Str(<<"R","e","v","i","s","e"," ","&"," ","R","e","s","u","b","m","i","t">>),
           Str(<<"C","o","n","t","r","a","c","t","o","r">>),
           Str(<<"O","w","n","e","r"," ","R","e","p">>),
           Str(<<"2","0","2","5","-","0","2","-","2","6">>),
           Str(<<"2","0","2","5","-","0","3","-","1","2">>),
           Str(<<>>),
           Num(SampleAge(t_now, <<"2","0","2","5","-","0","2","-","2","6">>)) >>
        >>, 1, IF SampleRows < 4 THEN SampleRows ELSE 4)]

\* the first rows of the table built by generate_sample_rfis; the Days Open of a
\* record that is not closed is (datetime.now() - created).days
generate_sample_rfis(t_now) ==
    [columns |->
        << <<"R","F","I"," ","#">>,
           <<"S","u","b","j","e","c","t">>,
           <<"D","i","s","c","i","p","l","i","n","e">>,
           <<"C","o","n","t","r","a","c","t","o","r">>,
           <<"S","t","a","t","u","s">>,
           <<"P","r","i","o","r","i","t","y">>,
           <<"B","a","l","l"," ","i","n"," ","C","o","u","r","t">>,
           <<"D","a","t","e"," ","C","r","e","a","t","e","d">>,
           <<"D","u","e"," ","D","a","t","e">>,
           <<"D","a","t","e"," ","C","l","o","s","e","d">>,
           <<"D","a","y","s"," ","O","p","e","n">>,
           <<"C","o","s","t"," ","I","m","p","a","c","t">>,
           <<"S","c","h","e","d","u","l","e"," ","I","m","p","a","c","t">> >>,
     rows |-> SubSeq(<<
        << Str(<<"R","F","I","-","0","0","0","1">>),
           Str(<<"C","l","a","r","i","f","i","c","a","t","i","o","n"," ","o","n"," ","P","l","u","m","b","i","n","g"," ","d","e","t","a","i","l"," ","#","2","8","3">>),
           Str(<<"M","e","c","h","a","n","i","c","a","l">>),
           Str(<<"C","I","M","A","+">>),
           Str(<<"P","e","n","d","i","n","g"," ","R","e","s","p","o","n","s","e">>),
           Str(<<"M","e","d","i","u","m">>),
           Str(<<"C","o","n","s","u","l","t","a","n","t">>),
           Str(<<"2","0","2","5","-","0","4","-","2","8">>),
           Str(<<"2","0","2","5","-","0","5","-","0","9">>),
           Str(<<>>),
           Num(SampleAge(t_now, <<"2","0","2","5","-","0","4","-","2","8">>)),
           Str(<<"P","o","t","e","n","t","i","a","l">>),
           Str(<<"N","o">>) >>,
        << Str(<<"R","F","I","-","0","0","0","2">>),
           Str(<<"C","l","a","r","i","f","i","c","a","t","i","o","n"," ","o","n"," ","P","l","u","m","b","i","n","g"," ","d","e","t","a","i","l"," ","#","6","0","1">>),
           Str(<<"M","e","c","h","a","n","i","c","a","l">>),
           Str(<<"B","i","r","d">>),
           Str(<<"O","p","e","n">>),
           Str(<<"M","e","d","i","u","m">>),
           Str(<<"O","w","n","e","r">>),
           Str(<<"2","0","2","5","-","0","5","-","3","0">>),
           Str(<<"2","0","2","5","-","0","6","-","1","2">>),
           Str(<<>>),
           Num(SampleAge(t_now, <<"2","0","2","5","-","0","5","-","3","0">>)),
           Str(<<"P","o","t","e","n","t","i","a","l">>),
           Str(<<"Y","e","s">>) >>,
        << Str(<<"R","F","I","-","0","0","0","3">>),
           Str(<<"C","l","a","r","i","f","i","c","a","t","i","o","n"," ","o","n"," ","P","r","o","c","e","s","s","/","P","h","a","r","m","a"," ","d","e","t","a","i","l"," ","#","6","8","0">>),
           Str(<<"E","l","e","c","t","r","i","c","a","l">>),
           Str(<<"C","R","B">>),
           Str(<<"P","e","n","d","i","n","g"," ","R","e","s","p","o","n","s","e">>),
           Str(<<"L","o","w">>),
           Str(<<"A","r","c","h","i","t","e","c","t">>),
           Str(<<"2","0","2","5","-","0","2","-","2","2">>),
           Str(<<"2","0","2","5","-","0","3","-","0","6">>),
           Str(<<>>),
           Num(SampleAge(t_now, <<"2","0","2","5","-","0","2","-","2","2">>)),
           Str(<<"P","o","t","e","n","t","i","a","l">>),
           Str(<<"N","o">>) >>,
        << Str(<<"R","F","I","-","0","0","0","4">>),
           Str(<<"C","l","a","r","i","f","i","c","a","t","i","o","n"," ","o","n"," ","A","r","c","h","i","t","e","c","t","u","r","a","l"," ","d","e","t","a","i","l"," ","#","3","0","8">>),
           Str(<<"E","l","e","c","t","r","i","c","a","l">>),
           Str(<<"A","P","I">>),
           Str(<<"O","p","e","n">>),
           Str(<<"L","o","w">>),
           Str(<<"A","r","c","h","i","t","e","c","t">>),
           Str(<<"2","0","2","5","-","0","1","-","2","5">>),
           Str(<<"2","0","2","5","-","0","2","-","0","3">>),
           Str(<<>>),
           Num(SampleAge(t_now, <<"2","0","2","5","-","0","1","-","2","5">>)),
           Str(<<"C","o","n","f","i","r","m","e","d">>),
           Str(<<"Y","e","s">>) >>
        >>, 1, IF SampleRows < 4 THEN SampleRows ELSE 4)]

\* ------------------------------------------------------------------
\* parse_uploaded_file
\* ------------------------------------------------------------------
\* An uploaded file: its name and what reading it yields: "table" (header
\* and rows), "empty" (nothing to read: no data in a CSV, no table on any
\* page of a PDF) or "unreadable" (the reader raises)
EmptyTable == [columns |-> <<>>, rows |-> <<>>]
NoFile == [name |-> <<>>, content |-> "none", table |-> EmptyTable]

\* str.endswith
EndsWith(s, suffix) ==
    Len(s) >= Len(suffix) /\ SubSeq(s, Len(s) - Len(suffix) + 1, Len(s)) = suffix

\* df.columns = df.columns.str.strip()
StripColumns(df) ==
    [df EXCEPT !.columns = [i \in 1..Len(df.columns) |-> StrStrip(df.columns[i])]]

ParsedNone == [none |-> TRUE, raised |-> FALSE, df |-> EmptyTable]
ParsedTable(df) == [none |-> FALSE, raised |-> FALSE, df |-> df]

\* mutant: an exception of the reader is not caught
parse_uploaded_file_NoCatch(uploaded_file, pdfplumber) ==
    LET name == StrLower(uploaded_file.name)
    IN  IF uploaded_file = NoFile THEN ParsedNone
        ELSE IF uploaded_file.content = "unreadable"
        THEN [none |-> FALSE, raised |-> TRUE, df |-> EmptyTable]
        ELSE IF uploaded_file.content = "table"
                /\ (EndsWith(name, <<".","c","s","v">>) \/ EndsWith(name, <<".","x","l","s","x">>) \/ EndsWith(name, <<".","x","l","s">>)
                      \/ (EndsWith(name, <<".","p","d","f">>) /\ pdfplumber))
        THEN ParsedTable(StripColumns(uploaded_file.table))
        ELSE ParsedNone

\* none = TRUE stands for the return value None
parse_uploaded_file(uploaded_file, pdfplumber) ==
    LET name == StrLower(uploaded_file.name)
    IN  IF uploaded_file = NoFile THEN ParsedNone
        ELSE IF EndsWith(name, <<".","c","s","v">>)
        THEN IF uploaded_file.content = "table"
             THEN ParsedTable(StripColumns(uploaded_file.table))
             ELSE ParsedNone                \* pd.read_csv raised: except branch
        ELSE IF EndsWith(name, <<".","x","l","s","x">>) \/ EndsWith(name, <<".","x","l","s">>)
        THEN IF uploaded_file.content = "table"
             THEN ParsedTable(StripColumns(uploaded_file.table))
             ELSE ParsedNone                \* pd.ExcelFile raised (damaged or empty
                                            \* workbook): except branch
        ELSE IF EndsWith(name, <<".","p","d","f">>)
        THEN IF ~pdfplumber THEN ParsedNone
             ELSE IF uploaded_file.content = "unreadable" THEN ParsedNone
             ELSE IF uploaded_file.content = "empty" THEN ParsedNone
             ELSE ParsedTable(StripColumns(uploaded_file.table))
        ELSE ParsedNone                     \* unsupported file type

\* ------------------------------------------------------------------
\* main script: load data, normalize, classify, overdue
\* ------------------------------------------------------------------
\* if df is None: df = generate_sample_...()
OrSample(parsed, sample) ==
    IF parsed.raised THEN [raised |-> TRUE, df |-> EmptyTable]
    ELSE IF parsed.none THEN [raised |-> FALSE, df |-> sample]
    ELSE [raised |-> FALSE, df |-> parsed.df]

\* Load data, for one record kind
LoadData(source, uploaded_file, sample, pdfplumber) ==
    IF source = "upload" /\ uploaded_file # NoFile
    THEN OrSample(parse_uploaded_file(uploaded_file, pdfplumber), sample)
    ELSE [raised |-> FALSE, df |-> sample]

RaisedKind == [raised |-> TRUE, df |-> EmptyTable, open_list |-> <<>>, closed_list |-> <<>>]

\* df = calculate_overdue(df, threshold, open_statuses)
Evaluated(df, lists, threshold_days, t_now) ==
    [raised |-> FALSE,
     df |-> calculate_overdue(df, threshold_days, lists.open_list, t_now),
     open_list |-> lists.open_list,
     closed_list |-> lists.closed_list]

\* open_statuses, closed_statuses = classify_statuses(df), then the overdue
\* step; both raise on a table with two Status or two Procore Overdue columns
Classified(norm, threshold_days, t_now) ==
    IF norm.raised \/ DupCol(norm.df, ColStatus) \/ DupCol(norm.df, ColProcoreOverdue)
    THEN RaisedKind
    ELSE Evaluated(norm.df, classify_statuses(norm.df), threshold_days, t_now)

\* normalize_columns, classify_statuses and calculate_overdue of one kind
RunKind(loaded, item_type, threshold_days, t_now) ==
    IF loaded.raised THEN RaisedKind
    ELSE Classified(normalize_columns(loaded.df, item_type, t_now), threshold_days, t_now)

\* an exception in any step ends the run without results
Collected(sub, rfi) ==
    IF sub.raised \/ rfi.raised
    THEN [run |-> "raised", df_sub |-> EmptyTable, df_rfi |-> EmptyTable,
          sub_open |-> <<>>, sub_closed |-> <<>>, rfi_open |-> <<>>, rfi_closed |-> <<>>]
    ELSE [run |-> "ok", df_sub |-> sub.df, df_rfi |-> rfi.df,
          sub_open |-> sub.open_list, sub_closed |-> sub.closed_list,
          rfi_open |-> rfi.open_list, rfi_closed |-> rfi.closed_list]

\* one run of the script from the widget values
RunScript(source, s_file, r_file, s_threshold, r_threshold, pdfplumber, t_now) ==
    Collected(
        RunKind(LoadData(source, s_file, generate_sample_submittals(t_now), pdfplumber),
                "submittal", s_threshold, t_now),
        RunKind(LoadData(source, r_file, generate_sample_rfis(t_now), pdfplumber),
                "rfi", r_threshold, t_now))

\* ------------------------------------------------------------------
\* main script: sidebar filters
\* ------------------------------------------------------------------
ColDiscipline == <<"D","i","s","c","i","p","l","i","n","e">>

\* the values of a column, as a set
CellsOf(df, name) == {Series(df, name)[r] : r \in 1..NRows(df)}

\* set(df_sub["Contractor"].unique()) | set(df_rfi["Contractor"].unique())
contractors_all(res) ==
    CellsOf(res.df_sub, ColContractor) \cup CellsOf(res.df_rfi, ColContractor)

\* df_rfi["Discipline"].dropna().unique()
disciplines_all(res) ==
    IF HasCol(res.df_rfi, ColDiscipline)
    THEN {c \in CellsOf(res.df_rfi, ColDiscipline) : ~isna(c)}
    ELSE {}

\* sorted(...) raises TypeError on values of different types (a missing
\* value next to text)
SortedRaises(cells) == Cardinality({c.k : c \in cells}) > 1

\* the filter section is not reached, or raises
FiltersRaise(res) ==
    \/ res.run # "ok"
    \/ SortedRaises(contractors_all(res))
    \/ DupCol(res.df_rfi, ColDiscipline)
    \/ SortedRaises(disciplines_all(res))

\* the options of the two multiselects
ContractorOptions(res) == IF FiltersRaise(res) THEN {} ELSE contractors_all(res)
DisciplineOptions(res) == IF FiltersRaise(res) THEN {} ELSE disciplines_all(res)

\* df[df[name].isin(sel)]
Isin(df, name, sel) ==
    [df EXCEPT !.rows = SelectSeq(df.rows, LAMBDA row : row[ColIdx(df, name)] \in sel)]

\* df_sub_f and df_rfi_f
ApplyFilters(res, contractors, disciplines) ==
    IF FiltersRaise(res)
    THEN [run |-> "raised", df_sub_f |-> EmptyTable, df_rfi_f |-> EmptyTable]
    ELSE [run |-> "ok",
          df_sub_f |-> Isin(res.df_sub, ColContractor, contractors),
          df_rfi_f |-> IF disciplines # {}
                       THEN Isin(Isin(res.df_rfi, ColContractor, contractors),
                                 ColDiscipline, disciplines)
                       ELSE Isin(res.df_rfi, ColContractor, contractors)]

\* ------------------------------------------------------------------
\* Specification SpecMap: map_columns applied to a table, then to its
\* own output
\* ------------------------------------------------------------------
LabelPool ==
    { <<"S","t","a","t","u","s">>,
      <<"c","u","r","r","e","n","t"," ","s","t","a","t","u","s">>,
      <<" ","S","T","A","T","U","S"," ">>,
      <<"T","i","t","l","e">>,
      <<"d","e","s","c","r","i","p","t","i","o","n">>,
      <<"S","u","b","j","e","c","t">>,
      <<"t","r","a","d","e">>,
      <<"C","o","n","t","r","a","c","t","o","r">>,
      <<"c","l","o","s","e","d">>,
      <<"D","a","t","e"," ","C","l","o","s","e","d">>,
      <<"N","o","t","e","s">>,
      <<"o","v","e","r","d","u","e">> }

SeqsUpTo(S, n) == UNION {[1..k -> S] : k \in 0..n}

ItemTypes == {"submittal", "rfi"}

IdleSession ==
    /\ data_source = "sample"
    /\ sub_file = NoFile
    /\ rfi_file = NoFile
    /\ submittal_threshold = 14
    /\ rfi_threshold = 10
    /\ pdfplumber_installed = TRUE
    /\ script_now = 0
    /\ results = [run |-> "idle"]
    /\ sel_contractors = {}
    /\ sel_disciplines = {}
    /\ filtered = [run |-> "idle"]

IdleMap ==
    /\ mc_src = <<>>
    /\ mc_item_type = "submittal"
    /\ mc_columns = <<>>
    /\ mc_prev = <<>>
    /\ mc_rename_dict = <<>>
    /\ mc_passes = 0

IdleNames ==
    /\ nr_cell = NaN
    /\ nr_result = <<>>
    /\ nr_done = FALSE

IdlePipe ==
    /\ pl_src_df = [columns |-> <<>>, rows |-> <<>>]
    /\ pl_df = [columns |-> <<>>, rows |-> <<>>]
    /\ pl_item_type = "submittal"
    /\ pl_threshold_days = 14
    /\ pl_now = 0
    /\ pl_open_statuses = <<>>
    /\ pl_closed_statuses = <<>>
    /\ pl_pc = "idle"

InitMap ==
    /\ mc_src \in SeqsUpTo(LabelPool, MaxCols)
    /\ mc_item_type \in ItemTypes
    /\ mc_columns = mc_src
    /\ mc_prev = mc_src
    /\ mc_rename_dict = <<>>
    /\ mc_passes = 0
    /\ IdleNames
    /\ IdlePipe
    /\ IdleSession

MapColumns ==
    /\ mc_passes < MaxPasses
    /\ LET r == map_columns(mc_columns, ColMapOf(mc_item_type))
       IN  /\ mc_columns' = r.columns
           /\ mc_rename_dict' = r.rename_dict
    /\ mc_prev' = mc_columns
    /\ mc_passes' = mc_passes + 1
    /\ UNCHANGED <<mc_src, mc_item_type, nameVars, pipeVars, sessionVars>>

NextMap == MapColumns

SpecMap == InitMap /\ [][NextMap]_vars

\* ------------------------------------------------------------------
\* Column Mapper properties
\* ------------------------------------------------------------------
CanonicalNames(item_type) == DictValues(ColMapOf(item_type))

Distinct(seq) == \A i, j \in 1..Len(seq) : i # j => seq[i] # seq[j]

\* C4: the table returned by map_columns never has two columns with the
\* same canonical name (stated for source tables whose labels are
\* pairwise distinct)
C4_NoDuplicateCanonical ==
    (mc_passes >= 1 /\ Distinct(mc_src)) =>
        \A i, j \in 1..Len(mc_columns) :
            (i # j /\ mc_columns[i] \in CanonicalNames(mc_item_type))
                => mc_columns[i] # mc_columns[j]

KeyOf(col) == StrLower(StrStrip(col))
HasTarget(col) == DictHas(ColMapOf(mc_item_type), KeyOf(col))
TargetOf(col) == DictGet(ColMapOf(mc_item_type), KeyOf(col))

\* column i of the table passed in is the first one, in column order, with
\* its canonical target
FirstWithTarget(i) ==
    /\ HasTarget(mc_prev[i])
    /\ \A j \in 1..(i - 1) :
          ~(HasTarget(mc_prev[j]) /\ TargetOf(mc_prev[j]) = TargetOf(mc_prev[i]))

NameAlphabet == {"a", "x", " ", ",", "\n", "(", ")"}

NameSamples ==
    { <<"J","a","n","e"," ","D","o","e"," ","(","A","c","m","e"," ","C","o","r","p",")">>,
      <<"T","r","e","n","t"," ","E","k","l","u","n","d">>,
      <<"T","r","e","n","t"," ","E","k","l","u","n","d",","," ","D","a","n"," ","R","i","s","k","e">>,
      <<"D","a","n"," ","R","i","s","k","e",","," ","T","r","e","n","t"," ","E","k","l","u","n","d">>,
      <<"A","n","d","r","e","a","s"," ","L","o","u","t","a","s">>,
      <<"A","n","d","r","e","a","s"," ","L","o","u","t","a","s",","," ","T","r","e","n","t"," ","E","k","l","u","n","d">>,
      <<"Q","u","i","x"," ","Z","y","x">>,
      <<"Q","u","i","x"," ","Z","y","x",","," ","L","e","s","l","e","y"," ","W","o","o","d","s">>,
      <<"D","a","n"," ","R","i","s","k","e"," ","(","C","R","B",")">>,
      <<"M","r",".","T","r","e","n","t"," ","E","k","l","u","n","d"," ","J","r">>,
      <<"g","a","g","n","o","n">> }

NameCells ==
    {NaN} \cup {Str(s) : s \in SeqsUpTo(NameAlphabet, MaxCellLen) \cup NameSamples}

InitNames ==
    /\ nr_cell \in NameCells
    /\ nr_result = <<>>
    /\ nr_done = FALSE
    /\ IdleMap
    /\ IdlePipe
    /\ IdleSession

ExtractCompanies ==
    /\ ~nr_done
    /\ nr_result' = extract_companies_from_names(nr_cell)
    /\ nr_done' = TRUE
    /\ UNCHANGED <<nr_cell, mapVars, pipeVars, sessionVars>>

NextNames == ExtractCompanies

SpecNames == InitNames /\ [][NextNames]_vars

\* ------------------------------------------------------------------
\* Name Resolver properties
\* ------------------------------------------------------------------
\* a cell that carries no name and no organization text: missing, or made
\* only of white space, separators and parentheses
Unresolvable(cell) ==
    isna(cell) \/ \A i \in 1..Len(cell.s) :
                      IsSpace(cell.s[i]) \/ IsSep(cell.s[i]) \/ cell.s[i] \in {"(", ")"}

\* C7: extract_companies_from_names returns a non-empty string for every
\* cell, and exactly "Unknown" for a missing, empty, white-space-only or
\* otherwise unresolvable cell
C7_TotalUnknown ==
    nr_done => /\ nr_result # <<>>
               /\ Unresolvable(nr_cell) => nr_result = Unknown

\* the non-blank segments of a cell: its text split at commas and line
\* breaks, each piece trimmed
Segments(cell) ==
    IF isna(cell) THEN {}
    ELSE LET parts == ReSplit(cell.s, 1, <<>>)
         IN  {StrStrip(parts[i]) : i \in 1..Len(parts)} \ {<<>>}

\* the entries of a result: its text split at each ", "
RECURSIVE SplitEntries(_, _, _)
SplitEntries(s, i, cur) ==
    IF i > Len(s) THEN {cur}
    ELSE IF i < Len(s) /\ s[i] = "," /\ s[i + 1] = " "
    THEN {cur} \cup SplitEntries(s, i + 2, <<>>)
    ELSE SplitEntries(s, i + 1, Append(cur, s[i]))

ResultEntries(result) == SplitEntries(result, 1, <<>>)

\* C12: a segment with a parenthetical contributes the text inside its
\* parentheses (trimmed) as its organization, whatever name stands before
\* it; a cell of one such segment resolves to exactly that text
C12_ParentheticalWins ==
    nr_done =>
        \A p \in Segments(nr_cell) :
           ParenStarts(p) # {} =>
              LET org == StrStrip(ParenGroup(p))
              IN  /\ \/ org \in ResultEntries(nr_result)
                     \/ org = Unknown /\ nr_result # Unknown
                  /\ Cardinality(Segments(nr_cell)) = 1 => nr_result = org

\* a known CIMA+ employee followed by (CRB) resolved to CRB
C12_Witness ==
    /\ nr_done
    /\ nr_cell = Str(<<"D","a","n"," ","R","i","s","k","e"," ","(","C","R","B",")">>)
    /\ DictGet(EMPLOYEE_COMPANY_MAP, <<"d","a","n"," ","r","i","s","k","e">>) = <<"C","I","M","A","+">>
    /\ nr_result = <<"C","R","B">>

\* a segment with no parenthetical at all, not even an empty one
NoParenthetical(p) ==
    ~\E i, j \in 1..Len(p) : i < j /\ p[i] = "(" /\ p[j] = ")"

\* positions of the table whose key is the name, and positions whose key
\* contains the name or is contained in it
ExactKeys(name) ==
    {i \in 1..Len(EMPLOYEE_COMPANY_MAP) : EMPLOYEE_COMPANY_MAP[i][1] = name}
NearKeys(name) ==
    {i \in 1..Len(EMPLOYEE_COMPANY_MAP) :
        \E a, b \in 0..Len(EMPLOYEE_COMPANY_MAP[i][1]) + Len(name) :
            \/ /\ a + Len(name) <= Len(EMPLOYEE_COMPANY_MAP[i][1])
               /\ SubSeq(EMPLOYEE_COMPANY_MAP[i][1], a + 1, a + Len(name)) = name
            \/ /\ b + Len(EMPLOYEE_COMPANY_MAP[i][1]) <= Len(name)
               /\ SubSeq(name, b + 1, b + Len(EMPLOYEE_COMPANY_MAP[i][1])) = EMPLOYEE_COMPANY_MAP[i][1]}

\* the organization C17 gives a segment without a parenthetical
OrgByTable(p) ==
    IF ExactKeys(StrLower(p)) # {}
    THEN EMPLOYEE_COMPANY_MAP[SetMin(ExactKeys(StrLower(p)))][2]
    ELSE IF NearKeys(StrLower(p)) # {}
    THEN EMPLOYEE_COMPANY_MAP[SetMin(NearKeys(StrLower(p)))][2]
    ELSE Unknown

\* C17: a segment without a parenthetical contributes the organization of
\* its exact key when the lowercased segment is a key of the table,
\* otherwise that of the first key in table order that contains it or is
\* contained in it, otherwise "Unknown"; a cell of one such segment
\* resolves to exactly that organization
C17_ExactThenSubstring ==
    nr_done =>
        \A p \in Segments(nr_cell) :
           NoParenthetical(p) =>
              /\ \/ OrgByTable(p) \in ResultEntries(nr_result)
                 \/ OrgByTable(p) = Unknown /\ nr_result # Unknown
              /\ Cardinality(Segments(nr_cell)) = 1 => nr_result = OrgByTable(p)

\* a one-segment cell that is no key but lies inside several keys, resolved
\* to the organization of the first of them in table order
C17_Witness ==
    /\ nr_done
    /\ Segments(nr_cell) = {nr_cell.s}
    /\ NoParenthetical(nr_cell.s)
    /\ ExactKeys(StrLower(nr_cell.s)) = {}
    /\ Cardinality({EMPLOYEE_COMPANY_MAP[i][2] : i \in NearKeys(StrLower(nr_cell.s))}) > 1
    /\ nr_result = EMPLOYEE_COMPANY_MAP[1][2]

\* the organizations of the segments of a cell
SegmentOrgs(cell) == UNION {PartCompanies(p) : p \in Segments(cell)}

\* the same segments in reverse order, and the same segments twice
ReversedCell(cell) ==
    LET parts == ReSplit(cell.s, 1, <<>>)
    IN  Str(StrJoin(<<",">>, [i \in 1..Len(parts) |-> parts[Len(parts) + 1 - i]]))
RepeatedCell(cell) == Str(cell.s \o <<"\n">> \o cell.s)

\* C18: the result is the sorted distinct organizations of the segments
\* joined with ", ", without the entry "Unknown" as soon as one segment has
\* another organization, and it is the same for the segments in reverse
\* order and for the segments repeated
C18_SortedDistinctOrgs ==
    (nr_done /\ ~isna(nr_cell)) =>
        LET orgs == SegmentOrgs(nr_cell)
            kept == IF orgs = {} THEN {Unknown}
                    ELSE IF orgs \ {Unknown} # {} THEN orgs \ {Unknown}
                    ELSE orgs
        IN  /\ nr_result = StrJoin(<<",", " ">>, Sorted(kept))
            /\ ResultEntries(nr_result) = kept
            /\ orgs \ {Unknown} # {} => Unknown \notin ResultEntries(nr_result)
            /\ extract_companies_from_names(ReversedCell(nr_cell)) = nr_result
            /\ extract_companies_from_names(RepeatedCell(nr_cell)) = nr_result

\* an unknown name listed before a known one: the result is the known
\* organization alone
C18_Witness ==
    /\ nr_done
    /\ nr_cell = Str(<<"Q","u","i","x"," ","Z","y","x",","," ","L","e","s","l","e","y"," ","W","o","o","d","s">>)
    /\ SegmentOrgs(nr_cell) = {Unknown, <<"B","i","r","d">>}
    /\ nr_result = <<"B","i","r","d">>

\* ------------------------------------------------------------------
\* Specification SpecClassify: classify_statuses applied to a table
\* ------------------------------------------------------------------
StatusPool ==
    { NaN,
      Str(<<"O","p","e","n">>),
      Str(<<"A","p","p","r","o","v","e","d">>),
      Str(<<"P","e","n","d","i","n","g"," ","R","e","v","i","e","w">>),
      Str(<<" ","C","L","O","S","E","D"," ">>),
      Str(<<"C","u","s","t","o","m">>) }

DateClosedPool == {NaN, Ts(0)}

\* all tables with the given columns, cell pools and at most n rows
TablesOf(columns, pools, n) ==
    LET RowSet == {row \in [1..Len(columns) -> UNION Range(pools)] :
                      \A i \in 1..Len(columns) : row[i] \in pools[i]}
    IN  {[columns |-> columns, rows |-> rows] : rows \in SeqsUpTo(RowSet, n)}

\* n rows of the status Custom, k of them with a Date Closed (the first k,
\* or the last k), followed by the rows of another status
ShareTable(n, k, closed_first, others) ==
    [columns |-> <<ColStatus, ColDateClosed>>,
     rows |-> [i \in 1..n |->
                  << Str(<<"C","u","s","t","o","m">>),
                     IF (closed_first /\ i <= k) \/ (~closed_first /\ i > n - k)
                     THEN Ts(0) ELSE NaN >>] \o others]

ShareTables ==
    {ShareTable(nk[1], nk[2], closed_first, others) :
        nk \in {x \in (1..MaxShareRows) \X (0..MaxShareRows) : x[2] <= x[1]},
        closed_first \in BOOLEAN,
        others \in {<<>>, << <<Str(<<"O","p","e","n">>), Ts(0)>> >>, << <<NaN, Ts(0)>>, <<Str(<<"A","p","p","r","o","v","e","d">>), NaN>> >>}}

StatusTables ==
    TablesOf(<<ColStatus, ColDateClosed>>, <<StatusPool, DateClosedPool>>, MaxStatusRows)
    \cup TablesOf(<<ColStatus>>, <<StatusPool>>, MaxStatusRows)
    \cup TablesOf(<<ColDateClosed>>, <<DateClosedPool>>, MaxStatusRows)
    \cup ShareTables

InitClassify ==
    /\ pl_df \in StatusTables
    /\ pl_src_df = pl_df
    /\ pl_item_type = "submittal"
    /\ pl_threshold_days = 14
    /\ pl_now = 0
    /\ pl_open_statuses = <<>>
    /\ pl_closed_statuses = <<>>
    /\ pl_pc = "normalized"
    /\ IdleMap
    /\ IdleNames
    /\ IdleSession

ClassifyStatuses ==
    /\ pl_pc = "normalized"
    /\ IF DupCol(pl_df, ColStatus)
       THEN /\ pl_pc' = "raised"
            /\ UNCHANGED <<pl_open_statuses, pl_closed_statuses>>
       ELSE /\ LET r == classify_statuses(pl_df)
               IN  /\ pl_open_statuses' = r.open_list
                   /\ pl_closed_statuses' = r.closed_list
            /\ pl_pc' = "classified"
    /\ UNCHANGED <<pl_df, pl_src_df, pl_item_type, pl_threshold_days, pl_now, mapVars, nameVars, sessionVars>>

NextClassify == ClassifyStatuses

SpecClassify == InitClassify /\ [][NextClassify]_vars

\* ------------------------------------------------------------------
\* Status Classifier properties
\* ------------------------------------------------------------------
\* the distinct non-null Status values of the table
StatusesPresent ==
    IF HasCol(pl_df, ColStatus)
    THEN {c \in Range(Series(pl_df, ColStatus)) : ~isna(c)}
    ELSE {}

\* row of the first appearance of a status value
FirstRow(c) == SetMin({r \in 1..NRows(pl_df) : Series(pl_df, ColStatus)[r] = c})

InOrderOfAppearance(list) ==
    \A i, j \in 1..Len(list) : i < j => FirstRow(list[i]) < FirstRow(list[j])

\* C2: every distinct non-null Status value is in exactly one of the two
\* lists returned by classify_statuses, exactly once: the lists are
\* disjoint, have no repeated entry, and together hold exactly the values
\* present
C2_StatusPartition ==
    pl_pc = "classified" =>
        /\ Range(pl_open_statuses) \cup Range(pl_closed_statuses) = StatusesPresent
        /\ Range(pl_open_statuses) \cap Range(pl_closed_statuses) = {}
        /\ Distinct(pl_open_statuses)
        /\ Distinct(pl_closed_statuses)

\* a classified table in which a status occurs in two rows and both lists
\* are non-empty
C2_Witness ==
    /\ pl_pc = "classified"
    /\ pl_open_statuses # <<>>
    /\ pl_closed_statuses # <<>>
    /\ \E r1, r2 \in 1..NRows(pl_df) :
          /\ r1 # r2
          /\ ~isna(Series(pl_df, ColStatus)[r1])
          /\ Series(pl_df, ColStatus)[r1] = Series(pl_df, ColStatus)[r2]

ApprovedOpenPending ==
    << Str(<<"A","p","p","r","o","v","e","d">>),
       Str(<<"O","p","e","n">>),
       Str(<<"P","e","n","d","i","n","g"," ","R","e","v","i","e","w">>) >>

\* C10: a status whose trimmed, lowercased text is a closed keyword is in
\* the closed list and one whose text is an open keyword is in the open
\* list, whatever the Date Closed cells of its rows; both lists hold the
\* original strings in order of first appearance; statuses Approved, Open,
\* Pending Review without a Date Closed column give open = [Open, Pending
\* Review] and closed = [Approved]
C10_KeywordsFirst ==
    pl_pc = "classified" =>
        /\ \A c \in StatusesPresent :
              /\ StrLower(StrStrip(c.s)) \in KNOWN_CLOSED_STATUSES
                    => c \in Range(pl_closed_statuses)
              /\ StrLower(StrStrip(c.s)) \in KNOWN_OPEN_STATUSES
                    => c \in Range(pl_open_statuses)
        /\ InOrderOfAppearance(pl_open_statuses)
        /\ InOrderOfAppearance(pl_closed_statuses)
        /\ (pl_df.columns = <<ColStatus>> /\ Series(pl_df, ColStatus) = ApprovedOpenPending)
              => /\ pl_open_statuses = <<ApprovedOpenPending[2], ApprovedOpenPending[3]>>
                 /\ pl_closed_statuses = <<ApprovedOpenPending[1]>>

\* an open keyword all of whose rows carry a Date Closed, and a closed
\* keyword written with other case and spacing none of whose rows does
C10_Witness ==
    /\ pl_pc = "classified"
    /\ HasCol(pl_df, ColStatus) /\ HasCol(pl_df, ColDateClosed)
    /\ \E r1, r2 \in 1..NRows(pl_df) :
          /\ Series(pl_df, ColStatus)[r1] = Str(<<"O","p","e","n">>)
          /\ ~isna(Series(pl_df, ColDateClosed)[r1])
          /\ Series(pl_df, ColStatus)[r2] = Str(<<" ","C","L","O","S","E","D"," ">>)
          /\ isna(Series(pl_df, ColDateClosed)[r2])
          /\ r1 < r2
    /\ Str(<<"O","p","e","n">>) \in Range(pl_open_statuses)
    /\ Str(<<" ","C","L","O","S","E","D"," ">>) \in Range(pl_closed_statuses)

\* the rows of the table that carry status c, and those of them with a
\* Date Closed
RowsWith(c) == {r \in 1..NRows(pl_df) : Series(pl_df, ColStatus)[r] = c}
RowsClosed(c) == {r \in RowsWith(c) : Series(pl_df, ColDateClosed)[r].k # "nan"}

\* a status in neither keyword set
InNoKeywordSet(c) ==
    /\ StrLower(StrStrip(c.s)) \notin KNOWN_CLOSED_STATUSES
    /\ StrLower(StrStrip(c.s)) \notin KNOWN_OPEN_STATUSES

\* C16: a status in neither keyword set is in closed_list exactly when the
\* table has a Date Closed column and strictly more than 70% of the rows
\* carrying the status have a Date Closed; otherwise it is in open_list
C16_SeventyPercentRule ==
    pl_pc = "classified" =>
        \A c \in StatusesPresent : InNoKeywordSet(c) =>
            LET closed == /\ ColDateClosed \in Range(pl_df.columns)
                          /\ 10 * Cardinality(RowsClosed(c)) > 7 * Cardinality(RowsWith(c))
            IN  /\ (c \in Range(pl_closed_statuses)) <=> closed
                /\ (c \in Range(pl_open_statuses)) <=> ~closed

\* a status in neither keyword set with a Date Closed in exactly 7 of its 10
\* rows, classified as open
C16_Witness ==
    /\ pl_pc = "classified"
    /\ \E c \in StatusesPresent :
          /\ InNoKeywordSet(c)
          /\ Cardinality(RowsWith(c)) = 10
          /\ Cardinality(RowsClosed(c)) = 7
          /\ c \in Range(pl_open_statuses)
          /\ c \notin Range(pl_closed_statuses)

\* ------------------------------------------------------------------
\* Specification SpecOverdue: calculate_overdue applied to a normalized
\* table, a threshold and an open-status list
\* ------------------------------------------------------------------
NowPool == {14 * HoursPerDay, 14 * HoursPerDay + 13}

OverdueStatusPool == {NaN, Str(<<"O","p","e","n">>), Str(<<"A","p","p","r","o","v","e","d">>)}
DaysOpenPool == {NaN, Num(14), Num(20)}
FlagPool == {NaN, Str(<<" ","Y","e","s"," ">>), Str(<<"n","o">>), Num(1)}
DueDatePool == {NaN, Ts(13 * HoursPerDay), Ts(14 * HoursPerDay), Ts(15 * HoursPerDay)}

OverdueTables ==
    TablesOf(<<ColStatus, ColDaysOpen>>, <<OverdueStatusPool, DaysOpenPool>>, MaxOverdueRows)
    \cup TablesOf(<<ColStatus, ColDaysOpen, ColProcoreOverdue>>,
                  <<OverdueStatusPool, DaysOpenPool, FlagPool>>, MaxOverdueRows)
    \cup TablesOf(<<ColStatus, ColDaysOpen, ColDueDate>>,
                  <<OverdueStatusPool, DaysOpenPool, DueDatePool>>, MaxOverdueRows)
    \cup TablesOf(<<ColStatus, ColDaysOpen, ColProcoreOverdue, ColDueDate>>,
                  <<OverdueStatusPool, DaysOpenPool, FlagPool, DueDatePool>>, MaxOverdueRows)

OpenListPool ==
    { <<>>, <<Str(<<"O","p","e","n">>)>>, <<Str(<<"A","p","p","r","o","v","e","d">>)>> }

ThresholdPool == {14, 20}

InitOverdue ==
    /\ pl_df \in OverdueTables
    /\ pl_src_df = pl_df
    /\ pl_item_type \in ItemTypes
    /\ pl_threshold_days \in ThresholdPool
    /\ pl_now \in NowPool
    /\ pl_open_statuses \in OpenListPool
    /\ pl_closed_statuses = <<>>
    /\ pl_pc = "classified"
    /\ IdleMap
    /\ IdleNames
    /\ IdleSession

CalculateOverdue ==
    /\ pl_pc = "classified"
    /\ IF DupCol(pl_df, ColProcoreOverdue)
       THEN /\ pl_pc' = "raised"
            /\ UNCHANGED pl_df
       ELSE /\ pl_df' = calculate_overdue(pl_df, pl_threshold_days, pl_open_statuses, pl_now)
            /\ pl_pc' = "evaluated"
    /\ UNCHANGED <<pl_src_df, pl_item_type, pl_threshold_days, pl_now,
                   pl_open_statuses, pl_closed_statuses, mapVars, nameVars, sessionVars>>

NextOverdue == CalculateOverdue

SpecOverdue == InitOverdue /\ [][NextOverdue]_vars

\* ------------------------------------------------------------------
\* Overdue Evaluator properties
\* ------------------------------------------------------------------
Cell(r, name) == Series(pl_df, name)[r]

\* the trimmed, lowercased flag text of row r is one of yes/true/1/overdue/y
FlagSaysOverdue(r) ==
    LET txt == StrLower(StrStrip(AsTypeStr(Cell(r, ColProcoreOverdue))))
    IN  \/ txt = <<"y","e","s">> \/ txt = <<"t","r","u","e">> \/ txt = <<"1">>
        \/ txt = <<"o","v","e","r","d","u","e">> \/ txt = <<"y">>

\* C6: Is Overdue of each record is exactly: Status is in the open-status
\* list, and (the Procore Overdue column exists and its value says overdue,
\* or Days Open is strictly greater than the threshold, or the Due Date
\* column exists, the value is present and it is earlier than now)
C6_OverdueRule ==
    pl_pc = "evaluated" =>
        /\ HasCol(pl_df, ColIsOverdue)
        /\ \A r \in 1..NRows(pl_df) :
              (Cell(r, ColIsOverdue) = Bool(TRUE)) <=>
                 /\ \E i \in 1..Len(pl_open_statuses) : pl_open_statuses[i] = Cell(r, ColStatus)
                 /\ \/ HasCol(pl_df, ColProcoreOverdue) /\ FlagSaysOverdue(r)
                    \/ Cell(r, ColDaysOpen).k = "num"
                          /\ Cell(r, ColDaysOpen).n > pl_threshold_days
                    \/ /\ HasCol(pl_df, ColDueDate)
                       /\ Cell(r, ColDueDate).k = "ts"
                       /\ Cell(r, ColDueDate).n < pl_now
        /\ \A r \in 1..NRows(pl_df) : Cell(r, ColIsOverdue) \in {Bool(TRUE), Bool(FALSE)}

\* the example of the claim: an open record with Days Open 20 at threshold
\* 14, in a table without flag and due-date columns, is overdue
C6_Witness ==
    /\ pl_pc = "evaluated"
    /\ pl_threshold_days = 14
    /\ pl_df.columns = <<ColStatus, ColDaysOpen, ColIsOverdue>>
    /\ \E r \in 1..NRows(pl_df) :
          pl_df.rows[r] = <<Str(<<"O","p","e","n">>), Num(20), Bool(TRUE)>>

\* a Ball in Court column of blank cells, then n person names, then a tail
\* that may hold a standard value
BicTable(blanks, n, tail) ==
    [columns |-> <<ColBallInCourt>>,
     rows |-> [i \in 1..blanks |-> <<NaN>>]
              \o [i \in 1..n |-> <<Str(<<"T","r","e","n","t"," ","E","k","l","u","n","d">>)>>]
              \o tail]

BicTables ==
    {BicTable(blanks, n, tail) :
        blanks \in 0..1, n \in 1..MaxBicNames,
        tail \in {<<>>, << <<Str(<<"O","w","n","e","r">>)>> >>,
                  << <<Str(<<" ","C","L","O","S","E","D"," ">>)>>, <<Str(<<"D","a","n"," ","R","i","s","k","e">>)>> >>}}

\* ------------------------------------------------------------------
\* Specification SpecPipeline: normalize_columns, classify_statuses and
\* calculate_overdue applied in turn to a source table
\* ------------------------------------------------------------------
RawTables ==
    TablesOf(<<<<"S","t","a","t","u","s">>, <<"D","a","y","s"," ","O","p","e","n">>, <<"O","v","e","r","d","u","e">>, <<"D","u","e"," ","D","a","t","e">>>>,
             << {NaN, Str(<<"O","p","e","n">>), Str(<<"A","p","p","r","o","v","e","d">>)},
                {Num(5), Num(20)},
                {Str(<<"Y","e","s">>), Str(<<"n","o">>)},
                {Str(<<"2","0","2","5","-","0","1","-","1","0">>), Str(<<"2","0","2","5","-","0","2","-","0","1">>)} >>, MaxRows)
    \cup TablesOf(<<<<"C","u","r","r","e","n","t"," ","S","t","a","t","u","s">>, <<"D","a","t","e"," ","C","r","e","a","t","e","d">>, <<"D","a","t","e"," ","C","l","o","s","e","d">>>>,
             << {Str(<<"O","p","e","n">>), Str(<<"A","p","p","r","o","v","e","d">>), Str(<<"C","u","s","t","o","m">>)},
                {NaN, Str(<<"2","0","2","5","-","0","1","-","0","1">>), Str(<<"2","0","2","5","-","0","2","-","0","1">>), Str(<<"n","/","a">>)},
                {NaN, Str(<<"2","0","2","5","-","0","1","-","1","0">>)} >>, MaxRows)
    \cup TablesOf(<<<<"S","t","a","t","u","s">>, <<"A","g","e">>>>,
             << {Str(<<"O","p","e","n">>), Str(<<"A","p","p","r","o","v","e","d">>)},
                {NaN, Num(20), Num(0 - 3), Str(<<"1","2">>), Str(<<"-","3">>), Str(<<"a","b","c">>)} >>, MaxRows)
    \cup TablesOf(<<<<"C","o","n","t","r","a","c","t","o","r">>, <<"B","a","l","l"," ","i","n"," ","C","o","u","r","t">>>>,
             << {NaN, Str(<<"C","R","B">>), Str(<<"F","o","o">>), Str(<<>>)},
                {NaN, Str(<<"O","w","n","e","r">>), Str(<<"T","r","e","n","t"," ","E","k","l","u","n","d">>), Str(<<"("," ",")">>)} >>, MaxRows)
    \cup TablesOf(<<<<"B","a","l","l"," ","i","n"," ","C","o","u","r","t">>>>,
             << {NaN, Str(<<"T","r","e","n","t"," ","E","k","l","u","n","d">>), Str(<<"Q","u","i","x"," ","Z","y","x">>), Str(<<"O","w","n","e","r">>)} >>, MaxRows)
    \cup TablesOf(<<<<"C","o","m","p","a","n","y">>, <<"A","s","s","i","g","n","e","d"," ","T","o">>>>,
             << {NaN, Str(<<"F","o","o">>)},
                {NaN, Str(<<"D","a","n"," ","R","i","s","k","e">>), Str(<<"T","r","e","n","t"," ","E","k","l","u","n","d"," ","(","C","R","B",")">>)} >>, MaxRows)
    \cup TablesOf(<<<<"N","o","t","e","s">>>>, << {Str(<<"x">>)} >>, MaxRows)
    \cup TablesOf(<<<<"C","o","n","t","r","a","c","t","o","r">>>>, << {NaN, Str(<<"F","o","o">>), Str(<<"C","R","B">>)} >>, MaxRows)
    \cup TablesOf(<<<<"C","u","r","r","e","n","t"," ","S","t","a","t","u","s">>, <<"S","t","a","t","u","s">>>>,
             << {Str(<<"O","p","e","n">>), Str(<<"A","p","p","r","o","v","e","d">>)},
                {Str(<<"O","p","e","n">>), Str(<<"A","p","p","r","o","v","e","d">>)} >>, MaxRows)
    \cup BicTables
    \cup TablesOf(<<<<"A","g","e">>, <<"D","a","t","e"," ","C","r","e","a","t","e","d">>>>,
             << {NaN, Num(20), Str(<<"a","b","c">>)},
                {Str(<<"2","0","2","5","-","0","1","-","0","1">>)} >>, MaxRows)

\* the initial position of the threshold slider of each record kind
DefaultThreshold(item_type) == IF item_type = "submittal" THEN 14 ELSE 10

InitPipeline ==
    /\ pl_src_df \in RawTables
    /\ pl_df = pl_src_df
    /\ pl_item_type \in ItemTypes
    /\ pl_threshold_days = DefaultThreshold(pl_item_type)
    /\ pl_now \in NowPool
    /\ pl_open_statuses = <<>>
    /\ pl_closed_statuses = <<>>
    /\ pl_pc = "loaded"
    /\ IdleMap
    /\ IdleNames
    /\ IdleSession

NormalizeColumns ==
    /\ pl_pc = "loaded"
    /\ LET res == normalize_columns(pl_df, pl_item_type, pl_now)
       IN  /\ pl_df' = res.df
           /\ pl_pc' = IF res.raised THEN "raised" ELSE "normalized"
    /\ UNCHANGED <<pl_src_df, pl_item_type, pl_threshold_days, pl_now,
                   pl_open_statuses, pl_closed_statuses, mapVars, nameVars, sessionVars>>

NextPipeline == NormalizeColumns \/ ClassifyStatuses \/ CalculateOverdue

SpecPipeline == InitPipeline /\ [][NextPipeline]_vars

\* ------------------------------------------------------------------
\* Pipeline properties
\* ------------------------------------------------------------------
Normalized == pl_pc \in {"normalized", "classified", "evaluated"}

\* some overdue signal of row r is raised: flag, Days Open or Due Date
SomeSignal(r) ==
    \/ HasCol(pl_df, ColProcoreOverdue) /\ FlagSaysOverdue(r)
    \/ Cell(r, ColDaysOpen).k = "num" /\ Cell(r, ColDaysOpen).n > pl_threshold_days
    \/ HasCol(pl_df, ColDueDate) /\ Cell(r, ColDueDate).k = "ts"
          /\ Cell(r, ColDueDate).n < pl_now

\* C1: after the pipeline, a record whose Is Overdue is true has a Status
\* that is in the open list and not in the closed list; a record whose
\* Status is in the closed list is never overdue
C1_OverdueOnlyOpen ==
    pl_pc = "evaluated" =>
        \A r \in 1..NRows(pl_df) :
           /\ Cell(r, ColIsOverdue) = Bool(TRUE)
                 => /\ Cell(r, ColStatus) \in Range(pl_open_statuses)
                    /\ Cell(r, ColStatus) \notin Range(pl_closed_statuses)
           /\ Cell(r, ColStatus) \in Range(pl_closed_statuses)
                 => Cell(r, ColIsOverdue) = Bool(FALSE)

\* a record with a closed status and a raised overdue signal that is not
\* overdue, next to an overdue record
C1_Witness ==
    /\ pl_pc = "evaluated"
    /\ \E r1, r2 \in 1..NRows(pl_df) :
          /\ Cell(r1, ColStatus) \in Range(pl_closed_statuses)
          /\ SomeSignal(r1)
          /\ Cell(r1, ColIsOverdue) = Bool(FALSE)
          /\ Cell(r2, ColIsOverdue) = Bool(TRUE)

\* C3: every record output by normalize_columns has a Days Open value that
\* is a number greater than or equal to 0
C3_DaysOpenNonNegative ==
    Normalized =>
        /\ HasCol(pl_df, ColDaysOpen)
        /\ \A r \in 1..NRows(pl_df) :
              Cell(r, ColDaysOpen).k = "num" /\ Cell(r, ColDaysOpen).n >= 0

\* C8: after normalize_columns the Contractor and Ball in Court columns
\* exist and no record has an empty or missing value in either of them
C8_ContractorBallInCourtFilled ==
    Normalized =>
        /\ HasCol(pl_df, ColContractor)
        /\ HasCol(pl_df, ColBallInCourt)
        /\ \A r \in 1..NRows(pl_df) :
              /\ Cell(r, ColContractor).k = "str" /\ Cell(r, ColContractor).s # <<>>
              /\ Cell(r, ColBallInCourt).k = "str" /\ Cell(r, ColBallInCourt).s # <<>>

\* the source table under its canonical column names
SrcMapped == MapDf(pl_src_df, pl_item_type)

\* the cell of row r of the source table under a canonical column name
SrcCell(r, name) == Series(SrcMapped, name)[r]

\* the end of the open period of source row r: its Date Closed, or now
SrcEnd(r) ==
    IF HasCol(SrcMapped, ColDateClosed) /\ ~isna(ToDatetime(SrcCell(r, ColDateClosed)))
    THEN ToDatetime(SrcCell(r, ColDateClosed)).n
    ELSE pl_now

\* C11: when the source has no Days Open column, Days Open of every record
\* is a whole number: the days from Date Created to Date Closed (or to now
\* when the record has no Date Closed), floored at 0, or 0 when there is no
\* Date Created column
C11_DaysOpenFromDates ==
    (Normalized /\ ~HasCol(SrcMapped, ColDaysOpen)) =>
        \A r \in 1..NRows(pl_df) :
           /\ Cell(r, ColDaysOpen).k = "num"
           /\ IF HasCol(SrcMapped, ColDateCreated)
              THEN LET created == ToDatetime(SrcCell(r, ColDateCreated))
                       days == (SrcEnd(r) - created.n) \div HoursPerDay
                   IN  ~isna(created) =>
                          Cell(r, ColDaysOpen).n = IF days < 0 THEN 0 ELSE days
              ELSE Cell(r, ColDaysOpen).n = 0

\* C13: Contractor after normalize_columns: a source Contractor column with
\* a known organization among its sampled values is kept; otherwise the
\* first column with a person-like label is resolved row by row; otherwise
\* every record has "Unknown"
C13_ContractorChain ==
    Normalized =>
        IF HasCol(SrcMapped, ColContractor) /\ ContractorRecognized(SrcMapped)
        THEN Series(pl_df, ColContractor) = Series(SrcMapped, ColContractor)
        ELSE IF NameCols(SrcMapped) # {}
        THEN \A r \in 1..NRows(pl_df) :
                Cell(r, ColContractor) =
                   Str(extract_companies_from_names(
                          SrcMapped.rows[r][SetMin(NameCols(SrcMapped))]))
        ELSE \A r \in 1..NRows(pl_df) : Cell(r, ColContractor) = Str(Unknown)

\* ------------------------------------------------------------------
\* Specification SpecSession: the script rerun after every interaction
\* ------------------------------------------------------------------
SessionNowPool ==
    { HoursPerDay * DaysSinceEpoch(2025, 9, 1) + 9,
      HoursPerDay * DaysSinceEpoch(2025, 9, 2) + 9 }

SubmittalThresholds == {14, 20}
RfiThresholds == {10, 20}

FilePool ==
    { [name |-> <<"S","u","b","s",".","C","S","V">>, content |-> "table",
       table |-> [columns |-> <<<<" ","S","t","a","t","u","s"," ">>, <<"A","g","e">>>>,
                  rows |-> << <<Str(<<"O","p","e","n">>), Num(20)>>,
                              <<Str(<<"A","p","p","r","o","v","e","d">>), Num(3)>> >>]],
      [name |-> <<"b","a","d",".","c","s","v">>, content |-> "unreadable", table |-> EmptyTable],
      [name |-> <<"n","o","t","e","s",".","t","x","t">>, content |-> "table",
       table |-> [columns |-> <<<<"S","t","a","t","u","s">>>>, rows |-> << <<Str(<<"O","p","e","n">>)>> >>]],
      [name |-> <<"l","o","g",".","p","d","f">>, content |-> "table",
       table |-> [columns |-> <<<<"S","t","a","t","u","s">>, <<"B","a","l","l"," ","i","n"," ","C","o","u","r","t">>>>,
                  rows |-> << <<Str(<<"O","p","e","n">>), Str(<<"T","r","e","n","t"," ","E","k","l","u","n","d">>)>> >>]],
      [name |-> <<"s","c","a","n",".","p","d","f">>, content |-> "empty", table |-> EmptyTable],
      [name |-> <<"b","r","o","k","e","n",".","x","l","s","x">>, content |-> "unreadable", table |-> EmptyTable],
      [name |-> <<"t","w","i","c","e",".","c","s","v">>, content |-> "table",
       table |-> [columns |-> <<<<"C","u","r","r","e","n","t"," ","S","t","a","t","u","s">>, <<"S","t","a","t","u","s">>>>,
                  rows |-> << <<Str(<<"O","p","e","n">>), Str(<<"O","p","e","n">>)>> >>]] }

\* files offered to the RFIs uploader
RfiFilePool == {f \in FilePool : f.name \in {<<"l","o","g",".","p","d","f">>, <<"b","a","d",".","c","s","v">>}}

\* the option of a filter that sorts first
FirstOption(options) ==
    CHOOSE c \in options : \A d \in options : ~StrLess(d.s, c.s)

\* selections offered to a change of a filter: every option, or every
\* option but the first
FilterChoices(options) ==
    IF options = {} THEN {} ELSE {options, options \ {FirstOption(options)}}

\* what the user does to a filter in one interaction: nothing, or a new
\* selection
Keep == [keep |-> TRUE, sel |-> {}]
Pick(sel) == [keep |-> FALSE, sel |-> sel]

\* the value of a multiselect in a run: the picked selection; else the
\* earlier selection while the options are the same; else the default,
\* every option
Selection(pick, earlier, options_before, options) ==
    IF ~pick.keep THEN pick.sel
    ELSE IF options = options_before THEN earlier
    ELSE options

\* mutant: the tables of the previous run are reused while the data source
\* and the files are the same
Rerun_ReusesTables(source, s_file, r_file, s_threshold, r_threshold, c_pick, d_pick) ==
    /\ data_source' = source
    /\ sub_file' = s_file
    /\ rfi_file' = r_file
    /\ submittal_threshold' = s_threshold
    /\ rfi_threshold' = r_threshold
    /\ \E t \in SessionNowPool :
          /\ t >= script_now
          /\ script_now' = t
          /\ results' = IF source = data_source /\ s_file = sub_file /\ r_file = rfi_file
                        THEN results
                        ELSE RunScript(source, s_file, r_file, s_threshold, r_threshold,
                                       pdfplumber_installed, t)
    /\ sel_contractors' = Selection(c_pick, sel_contractors,
                                    ContractorOptions(results), ContractorOptions(results'))
    /\ sel_disciplines' = Selection(d_pick, sel_disciplines,
                                    DisciplineOptions(results), DisciplineOptions(results'))
    /\ filtered' = ApplyFilters(results', sel_contractors', sel_disciplines')
    /\ UNCHANGED <<pdfplumber_installed, mapVars, nameVars, pipeVars>>

\* the script run with the given widget values, at some time not before
\* the previous run
Rerun(source, s_file, r_file, s_threshold, r_threshold, c_pick, d_pick) ==
    /\ data_source' = source
    /\ sub_file' = s_file
    /\ rfi_file' = r_file
    /\ submittal_threshold' = s_threshold
    /\ rfi_threshold' = r_threshold
    /\ \E t \in SessionNowPool :
          /\ t >= script_now
          /\ script_now' = t
          /\ results' = RunScript(source, s_file, r_file, s_threshold, r_threshold,
                                  pdfplumber_installed, t)
    /\ sel_contractors' = Selection(c_pick, sel_contractors,
                                    ContractorOptions(results), ContractorOptions(results'))
    /\ sel_disciplines' = Selection(d_pick, sel_disciplines,
                                    DisciplineOptions(results), DisciplineOptions(results'))
    /\ filtered' = ApplyFilters(results', sel_contractors', sel_disciplines')
    /\ UNCHANGED <<pdfplumber_installed, mapVars, nameVars, pipeVars>>

InitSession ==
    /\ data_source = "sample"
    /\ sub_file = NoFile
    /\ rfi_file = NoFile
    /\ submittal_threshold = 14
    /\ rfi_threshold = 10
    /\ pdfplumber_installed \in BOOLEAN
    /\ script_now \in SessionNowPool
    /\ results = RunScript("sample", NoFile, NoFile, 14, 10, pdfplumber_installed, script_now)
    /\ sel_contractors = ContractorOptions(results)
    /\ sel_disciplines = DisciplineOptions(results)
    /\ filtered = ApplyFilters(results, sel_contractors, sel_disciplines)
    /\ IdleMap
    /\ IdleNames
    /\ IdlePipe

SelectDataSource ==
    \E source \in {"sample", "upload"} :
        /\ source # data_source
        /\ Rerun(source, NoFile, NoFile, submittal_threshold, rfi_threshold, Keep, Keep)

UploadSubmittals ==
    /\ data_source = "upload"
    /\ \E f \in FilePool :
          /\ f # sub_file
          /\ Rerun(data_source, f, rfi_file, submittal_threshold, rfi_threshold, Keep, Keep)

RemoveSubmittals ==
    /\ data_source = "upload"
    /\ sub_file # NoFile
    /\ Rerun(data_source, NoFile, rfi_file, submittal_threshold, rfi_threshold, Keep, Keep)

UploadRfis ==
    /\ data_source = "upload"
    /\ \E f \in RfiFilePool :
          /\ f # rfi_file
          /\ Rerun(data_source, sub_file, f, submittal_threshold, rfi_threshold, Keep, Keep)

RemoveRfis ==
    /\ data_source = "upload"
    /\ rfi_file # NoFile
    /\ Rerun(data_source, sub_file, NoFile, submittal_threshold, rfi_threshold, Keep, Keep)

MoveSubmittalSlider ==
    \E t \in SubmittalThresholds :
        /\ t # submittal_threshold
        /\ Rerun(data_source, sub_file, rfi_file, t, rfi_threshold, Keep, Keep)

MoveRfiSlider ==
    \E t \in RfiThresholds :
        /\ t # rfi_threshold
        /\ Rerun(data_source, sub_file, rfi_file, submittal_threshold, t, Keep, Keep)

ChangeContractorFilter ==
    \E sel \in FilterChoices(ContractorOptions(results)) :
        /\ sel # sel_contractors
        /\ Rerun(data_source, sub_file, rfi_file, submittal_threshold, rfi_threshold,
                 Pick(sel), Keep)

ChangeDisciplineFilter ==
    \E sel \in FilterChoices(DisciplineOptions(results)) :
        /\ sel # sel_disciplines
        /\ Rerun(data_source, sub_file, rfi_file, submittal_threshold, rfi_threshold,
                 Keep, Pick(sel))

NextSession ==
    \/ SelectDataSource
    \/ UploadSubmittals
    \/ RemoveSubmittals
    \/ UploadRfis
    \/ RemoveRfis
    \/ MoveSubmittalSlider
    \/ MoveRfiSlider
    \/ ChangeContractorFilter
    \/ ChangeDisciplineFilter

SpecSession == InitSession /\ [][NextSession]_vars

\* ------------------------------------------------------------------
\* File Parser properties
\* ------------------------------------------------------------------
Extension(f) ==
    LET dots == {i \in 1..Len(f.name) : f.name[i] = "."}
    IN  IF dots = {} THEN <<>> ELSE StrLower(SubSeq(f.name, SetMax(dots) + 1, Len(f.name)))

\* the file cannot be parsed: reading raises or finds no data, the
\* extension is not supported, or it is a PDF and pdfplumber is missing or
\* no page has a table
CannotParse(f) ==
    /\ f # NoFile
    /\ \/ f.content \in {"unreadable", "empty"}
       \/ Extension(f) \notin {<<"c","s","v">>, <<"x","l","s","x">>, <<"x","l","s">>, <<"p","d","f">>}
       \/ Extension(f) = <<"p","d","f">> /\ ~pdfplumber_installed

HasOverdueFlags(df) == HasCol(df, ColIsOverdue)

\* C9: when the uploaded file of one record kind cannot be parsed, the run
\* gives exactly the results of the same run without that file (the sample
\* dataset of that kind in its place, the other kind as it would be), and
\* with no file of the other kind the pipeline runs to completion on the
\* sample datasets
C9_ParseFailureFallsBack ==
    data_source = "upload" =>
        /\ CannotParse(sub_file) =>
              /\ results = RunScript("upload", NoFile, rfi_file, submittal_threshold,
                                     rfi_threshold, pdfplumber_installed, script_now)
              /\ rfi_file = NoFile =>
                    /\ results.run = "ok"
                    /\ results.df_sub =
                          RunKind([raised |-> FALSE, df |-> generate_sample_submittals(script_now)],
                                  "submittal", submittal_threshold, script_now).df
                    /\ HasOverdueFlags(results.df_sub) /\ HasOverdueFlags(results.df_rfi)
        /\ CannotParse(rfi_file) =>
              /\ results = RunScript("upload", sub_file, NoFile, submittal_threshold,
                                     rfi_threshold, pdfplumber_installed, script_now)
              /\ sub_file = NoFile =>
                    /\ results.run = "ok"
                    /\ results.df_rfi =
                          RunKind([raised |-> FALSE, df |-> generate_sample_rfis(script_now)],
                                  "rfi", rfi_threshold, script_now).df
                    /\ HasOverdueFlags(results.df_sub) /\ HasOverdueFlags(results.df_rfi)

\* a finished run in which the submittal file could not be read while the
\* RFI file was parsed and used
C9_Witness ==
    /\ data_source = "upload"
    /\ CannotParse(sub_file)
    /\ sub_file.content = "unreadable"
    /\ rfi_file # NoFile /\ ~CannotParse(rfi_file)
    /\ results.run = "ok"
    /\ NRows(results.df_sub) = NRows(generate_sample_submittals(script_now))
    /\ NRows(results.df_rfi) = NRows(rfi_file.table)

\* ------------------------------------------------------------------
\* Session properties
\* ------------------------------------------------------------------
\* the pipeline of one record kind run from scratch on the current inputs
SubFromScratch ==
    RunKind(LoadData(data_source, sub_file, generate_sample_submittals(script_now),
                     pdfplumber_installed),
            "submittal", submittal_threshold, script_now)

RfiFromScratch ==
    RunKind(LoadData(data_source, rfi_file, generate_sample_rfis(script_now),
                     pdfplumber_installed),
            "rfi", rfi_threshold, script_now)

\* C14: after any sequence of interactions the tables, the status lists and
\* the Is Overdue flags are those of the pipeline run from scratch on the
\* inputs now selected, and the flags of one kind are the same for every
\* position of the other kind's slider
C14_RebuiltEveryPass ==
    /\ IF SubFromScratch.raised \/ RfiFromScratch.raised
       THEN results.run = "raised"
       ELSE /\ results.run = "ok"
            /\ results.df_sub = SubFromScratch.df
            /\ results.sub_open = SubFromScratch.open_list
            /\ results.sub_closed = SubFromScratch.closed_list
            /\ results.df_rfi = RfiFromScratch.df
            /\ results.rfi_open = RfiFromScratch.open_list
            /\ results.rfi_closed = RfiFromScratch.closed_list
    /\ \A t \in SubmittalThresholds :
          RunScript(data_source, sub_file, rfi_file, t, rfi_threshold,
                    pdfplumber_installed, script_now).df_rfi = results.df_rfi
    /\ \A t \in RfiThresholds :
          RunScript(data_source, sub_file, rfi_file, submittal_threshold, t,
                    pdfplumber_installed, script_now).df_sub = results.df_sub

\* an uploaded submittal table, the submittal slider moved to 20 and a
\* filter changed: the record that is overdue at 14 is not overdue now
C14_Witness ==
    /\ data_source = "upload"
    /\ sub_file.name = <<"S","u","b","s",".","C","S","V">>
    /\ submittal_threshold = 20
    /\ results.run = "ok"
    /\ sel_contractors # ContractorOptions(results)
    /\ Series(results.df_sub, ColIsOverdue) = <<Bool(FALSE), Bool(FALSE)>>
    /\ Series(RunScript(data_source, sub_file, rfi_file, 14, rfi_threshold,
                        pdfplumber_installed, script_now).df_sub, ColIsOverdue)[1] = Bool(TRUE)


\* the Ball in Court column before its normalization: the mapped source
\* column, or the default when the source has none
BicBefore(r) ==
    IF HasCol(SrcMapped, ColBallInCourt) THEN SrcCell(r, ColBallInCourt)
    ELSE Str(Unknown)

\* rows holding the first 10 non-null values of that column
BicSampled ==
    {r \in 1..NRows(pl_df) :
        /\ BicBefore(r).k # "nan"
        /\ Cardinality({q \in 1..r : BicBefore(q).k # "nan"}) <= 10}

BicStandard(r) ==
    BicBefore(r).k = "str" /\ StrLower(StrStrip(BicBefore(r).s)) \in standard_bic

CommonFields ==
    << <<<<"S","t","a","t","u","s">>, <<"O","p","e","n">>>>, <<<<"C","o","n","t","r","a","c","t","o","r">>, <<"U","n","k","n","o","w","n">>>>,
       <<<<"B","a","l","l"," ","i","n"," ","C","o","u","r","t">>, <<"U","n","k","n","o","w","n">>>> >>
SubmittalFields ==
    << <<<<"S","u","b","m","i","t","t","a","l"," ","#">>, <<>> >>, <<<<"T","i","t","l","e">>, <<>> >>, <<<<"R","e","v","i","e","w","e","r">>, <<>> >>,
       <<<<"S","p","e","c"," ","S","e","c","t","i","o","n">>, <<>> >> >>
RfiFields ==
    << <<<<"R","F","I"," ","#">>, <<>> >>, <<<<"S","u","b","j","e","c","t">>, <<>> >>, <<<<"D","i","s","c","i","p","l","i","n","e">>, <<"G","e","n","e","r","a","l">>>>,
       <<<<"P","r","i","o","r","i","t","y">>, <<"M","e","d","i","u","m">>>>, <<<<"C","o","s","t"," ","I","m","p","a","c","t">>, <<"N","o","n","e">>>>,
       <<<<"S","c","h","e","d","u","l","e"," ","I","m","p","a","c","t">>, <<"N","o">>>> >>

RequiredFields ==
    CommonFields \o (IF pl_item_type = "submittal" THEN SubmittalFields ELSE RfiFields)
OtherKindFields ==
    IF pl_item_type = "submittal" THEN RfiFields ELSE SubmittalFields

\* field f holds default d in every row when the mapped source lacks it
DefaultAdded(f, d) ==
    ~HasCol(SrcMapped, f) => \A r \in 1..NRows(pl_df) : Cell(r, f) = Str(d)

\* field f has the values of the mapped source when the source has it
ValuesKept(f) ==
    HasCol(SrcMapped, f) => \A r \in 1..NRows(pl_df) : Cell(r, f) = SrcCell(r, f)

\* no field of the other record kind was added
NoOtherKindDefault ==
    \A i \in 1..Len(OtherKindFields) :
        HasCol(pl_df, OtherKindFields[i][1]) => HasCol(SrcMapped, OtherKindFields[i][1])

\* a source Days Open column is coerced to whole numbers, non-numeric
\* values becoming 0, whatever the dates of the row are
DaysOpenCoerced ==
    HasCol(SrcMapped, ColDaysOpen) =>
        \A r \in 1..NRows(pl_df) :
            Cell(r, ColDaysOpen) =
                IF isna(ToNumeric(SrcCell(r, ColDaysOpen))) THEN Num(0)
                ELSE ToNumeric(SrcCell(r, ColDaysOpen))

\* C20 as stated: after normalize_columns every required field of the kind
\* is present, with its default in every row when the mapped table lacked
\* it and with its own values when the mapped table had it; no default of
\* the other kind is added; a source Days Open column is coerced, not
\* recomputed
C20_DefaultsFrame ==
    pl_pc = "normalized" =>
        /\ \A i \in 1..Len(RequiredFields) :
              /\ HasCol(pl_df, RequiredFields[i][1])
              /\ DefaultAdded(RequiredFields[i][1], RequiredFields[i][2])
              /\ ValuesKept(RequiredFields[i][1])
        /\ NoOtherKindDefault
        /\ DaysOpenCoerced

\* C20 amended: as above, except that Contractor gets its default only
\* when the mapped table has no person-like column either, and that the
\* values of a present Contractor or Ball in Court column are not claimed
\* to be kept
C20_DefaultsFrameAmended ==
    pl_pc = "normalized" =>
        /\ \A i \in 1..Len(RequiredFields) :
              /\ HasCol(pl_df, RequiredFields[i][1])
              /\ (RequiredFields[i][1] # ColContractor \/ NameCols(SrcMapped) = {})
                    => DefaultAdded(RequiredFields[i][1], RequiredFields[i][2])
              /\ RequiredFields[i][1] \notin {ColContractor, ColBallInCourt}
                    => ValuesKept(RequiredFields[i][1])
        /\ NoOtherKindDefault
        /\ DaysOpenCoerced

\* an RFI table with Status and a non-numeric Days Open value: Status is
\* kept, Discipline is added as General, no submittal field is added and
\* the Days Open value is 0
C20_Witness ==
    /\ pl_pc = "normalized"
    /\ pl_item_type = "rfi"
    /\ HasCol(SrcMapped, ColStatus)
    /\ ~HasCol(SrcMapped, <<"D","i","s","c","i","p","l","i","n","e">>)
    /\ ~HasCol(pl_df, <<"S","p","e","c"," ","S","e","c","t","i","o","n">>)
    /\ \E r \in 1..NRows(pl_df) :
          /\ Cell(r, ColStatus) = SrcCell(r, ColStatus)
          /\ Cell(r, ColStatus) = Str(<<"A","p","p","r","o","v","e","d">>)
          /\ Cell(r, <<"D","i","s","c","i","p","l","i","n","e">>) = Str(<<"G","e","n","e","r","a","l">>)
          /\ SrcCell(r, ColDaysOpen) = Str(<<"a","b","c">>)
          /\ Cell(r, ColDaysOpen) = Num(0)


\* rows of a table marked overdue, and rows whose status is in a list
OverdueRows(df) ==
    {r \in 1..NRows(df) : Series(df, ColIsOverdue)[r] = Bool(TRUE)}
OpenRows(df, open_list) ==
    {r \in 1..NRows(df) : \E i \in 1..Len(open_list) : open_list[i] = Series(df, ColStatus)[r]}

\* sub_overdue <= sub_open and rfi_overdue <= rfi_open, on the filtered
\* tables of the overview and on the unfiltered ones
OverdueWithinOpen ==
    /\ results.run = "ok" =>
          /\ Cardinality(OverdueRows(results.df_sub))
                <= Cardinality(OpenRows(results.df_sub, results.sub_open))
          /\ Cardinality(OverdueRows(results.df_rfi))
                <= Cardinality(OpenRows(results.df_rfi, results.rfi_open))
    /\ filtered.run = "ok" =>
          /\ Cardinality(OverdueRows(filtered.df_sub_f))
                <= Cardinality(OpenRows(filtered.df_sub_f, results.sub_open))
          /\ Cardinality(OverdueRows(filtered.df_rfi_f))
                <= Cardinality(OpenRows(filtered.df_rfi_f, results.rfi_open))

\* a run with the same data source, files and current time as the run
\* before it, and no threshold lower than before
ThresholdsRaised ==
    /\ results.run = "ok" /\ results'.run = "ok"
    /\ data_source' = data_source /\ sub_file' = sub_file /\ rfi_file' = rfi_file
    /\ script_now' = script_now
    /\ submittal_threshold' >= submittal_threshold
    /\ rfi_threshold' >= rfi_threshold

\* C21: with table, open-status list and current time fixed, a record
\* overdue at a threshold is overdue at every lower threshold, so a run
\* with raised thresholds marks no record overdue that was not overdue
\* before; and the overdue count never exceeds the open count
C21_ThresholdMonotone ==
    /\ []OverdueWithinOpen
    /\ [][ThresholdsRaised =>
             /\ results'.sub_open = results.sub_open
             /\ results'.rfi_open = results.rfi_open
             /\ OverdueRows(results'.df_sub) \subseteq OverdueRows(results.df_sub)
             /\ OverdueRows(results'.df_rfi) \subseteq OverdueRows(results.df_rfi)]_vars

\* the uploaded submittal log at threshold 20, after the slider left its
\* initial 14: the open record with Days Open 20 is not overdue, and the
\* open count is above the overdue count
C21_Witness ==
    /\ results.run = "ok"
    /\ data_source = "upload"
    /\ submittal_threshold = 20
    /\ \E r \in OpenRows(results.df_sub, results.sub_open) :
          /\ Series(results.df_sub, ColDaysOpen)[r] = Num(20)
          /\ r \notin OverdueRows(results.df_sub)
    /\ Cardinality(OverdueRows(results.df_sub))
          < Cardinality(OpenRows(results.df_sub, results.sub_open))

====
